---------------------------- MODULE Spec2Model ----------------------------
(***************************************************************************)
(* Model of the server-side orchestration engine of                        *)
(* cerebras-parallel-integrated-chat: the API-key pool (ApiKeyManager),    *)
(* the error classifier, the parallel executor (executeParallel), the      *)
(* integration executor (executeIntegration), the step library and the     *)
(* request handler (POST) with its line-framed response stream.            *)
(*                                                                         *)
(* Conventions.  Keys are small integers, 0 stands for a blank entry of    *)
(* CEREBRAS_API_KEYS.  currentIndex is 0-based as in the source, so the    *)
(* key at the cursor is availableKeys[currentIndex + 1].  Texts are        *)
(* sequences of tokens; a streamed chunk (textPart) is one token.          *)
(***************************************************************************)
EXTENDS Integers, Sequences, FiniteSets, TLC

(***************************************************************************)
(* Bounds of the model.                                                    *)
(***************************************************************************)
\* number of distinct credentials, and longest CEREBRAS_API_KEYS list, for
\* the key pool and the executors taken alone
MaxLibKeys == 4
\* the same for a whole request
MaxKeys == 2
\* largest number of models handed to one fan-out
MaxModels == 2
\* largest number of chunks one upstream stream delivers
MaxChunks == 1

(***************************************************************************)
(* Program constants.                                                      *)
(***************************************************************************)
MIN_RETRY_ATTEMPTS == 3

KeyIds == 1..MaxLibKeys
\* the HTTP statuses an upstream call is let to fail with; 500 also stands
\* for a network error (callLlmApi maps an error without a status to 500)
Statuses == {400, 401, 403, 404, 429, 500}
\* the textParts an upstream stream is let to deliver
Tokens == {"a"}

Max(a, b) == IF a >= b THEN a ELSE b

RECURSIVE SeqsUpTo(_, _)
\* all sequences over S of length at most n
SeqsUpTo(S, n) ==
  IF n = 0 THEN {<<>>}
  ELSE LET shorter == SeqsUpTo(S, n - 1)
       IN  shorter \cup {Append(s, x) : s \in {t \in shorter : Len(t) = n - 1}, x \in S}

Range(s) == {s[i] : i \in 1..Len(s)}

RECURSIVE Flatten(_)
\* concatenation of a sequence of sequences
Flatten(ss) == IF ss = <<>> THEN <<>> ELSE Head(ss) \o Flatten(Tail(ss))

(***************************************************************************)
(* ApiKeyManager                                                           *)
(***************************************************************************)
\* getApiKeys: split(",") then drop the entries that are blank after trim
getApiKeys(raw) == SelectSeq(raw, LAMBDA k : k # 0)

\* a buggy shuffle that writes shuffled[i] := shuffled[j] without the swap
ShufflesLosingSwap(keys) ==
  {[i \in 1..Len(keys) |-> keys[p[i]]] : p \in [1..Len(keys) -> 1..Len(keys)]}

\* the constructor's Fisher-Yates shuffle of a copy: any permutation of keys
Shuffles(keys) ==
  {[i \in 1..Len(keys) |-> keys[p[i]]] :
     p \in {q \in [1..Len(keys) -> 1..Len(keys)] :
              \A i, j \in 1..Len(keys) : q[i] = q[j] => i = j}}

keyCount(keys) == Len(keys)

\* getNextKey: the key returned and the cursor it leaves.  On an empty list
\* it throws before it moves the cursor: no key (0) is returned.
KeyAtCursor(keys, idx) == IF Len(keys) = 0 THEN 0 ELSE keys[idx + 1]

\* a cursor that steps over the key next to the one returned
AdvanceSkipping(keys, idx) == (idx + 2) % Len(keys)

Advance(keys, idx) == IF Len(keys) = 0 THEN idx ELSE (idx + 1) % Len(keys)

\* a removal that takes out the first occurrence of the key only
FilterKeyFirstOnly(keys, k) ==
  LET at == {i \in 1..Len(keys) : keys[i] = k}
  IN  IF at = {} THEN keys
      ELSE LET m == CHOOSE i \in at : \A j \in at : i <= j
           IN  SubSeq(keys, 1, m - 1) \o SubSeq(keys, m + 1, Len(keys))

\* removeKey: the filtered list and the adjusted cursor
FilterKey(keys, k) == SelectSeq(keys, LAMBDA x : x # k)

AdjustNoModulo(keys, idx, k) == idx

Adjust(keys, idx, k) ==
  LET left == FilterKey(keys, k)
  IN  IF Len(left) < Len(keys)
      THEN idx % (IF Len(left) = 0 THEN 1 ELSE Len(left))
      ELSE idx

(***************************************************************************)
(* classifyError                                                           *)
(***************************************************************************)
\* a classifier that takes a model error (404) for a key error
classifyErrorEvictOn404(status) ==
  IF status = 401 \/ status = 403 \/ status = 404
  THEN [isPermanent |-> TRUE, removeKey |-> TRUE, removeModel |-> status = 404]
  ELSE IF status >= 400 /\ status < 500 /\ status # 429
  THEN [isPermanent |-> TRUE, removeKey |-> FALSE, removeModel |-> TRUE]
  ELSE [isPermanent |-> FALSE, removeKey |-> FALSE, removeModel |-> FALSE]

\* a classifier that retries every client error but 401, 403 and 404
classifyErrorRetryingBadRequest(status) ==
  IF status = 401 \/ status = 403
  THEN [isPermanent |-> TRUE, removeKey |-> TRUE, removeModel |-> FALSE]
  ELSE IF status = 404
  THEN [isPermanent |-> TRUE, removeKey |-> FALSE, removeModel |-> TRUE]
  ELSE [isPermanent |-> FALSE, removeKey |-> FALSE, removeModel |-> FALSE]

\* a classifier that retries an authentication failure but keeps the key
classifyErrorKeepingKey(status) ==
  IF status = 404
  THEN [isPermanent |-> TRUE, removeKey |-> FALSE, removeModel |-> TRUE]
  ELSE IF status >= 400 /\ status < 500 /\ status # 429 /\ status # 401 /\ status # 403
  THEN [isPermanent |-> TRUE, removeKey |-> FALSE, removeModel |-> TRUE]
  ELSE [isPermanent |-> FALSE, removeKey |-> FALSE, removeModel |-> FALSE]

classifyError(status) ==
  IF status = 401 \/ status = 403
  THEN [isPermanent |-> TRUE, removeKey |-> TRUE, removeModel |-> FALSE]
  ELSE IF status = 404
  THEN [isPermanent |-> TRUE, removeKey |-> FALSE, removeModel |-> TRUE]
  ELSE IF status >= 400 /\ status < 500 /\ status # 429
  THEN [isPermanent |-> TRUE, removeKey |-> FALSE, removeModel |-> TRUE]
  ELSE [isPermanent |-> FALSE, removeKey |-> FALSE, removeModel |-> FALSE]

\* the catch block of callLlmApi / callLlmApiStreaming: the status of the
\* LlmApiError thrown is that of the failed response (error.cause.status),
\* and 500 when the error carries none (cause 0: a network error)
statusOfError(cause) == IF cause = 0 THEN 500 ELSE cause

(***************************************************************************)
(* State                                                                   *)
(***************************************************************************)
VARIABLES
  envKeys,        \* what getApiKeys() returned for this request
  availableKeys,  \* ApiKeyManager.availableKeys
  currentIndex,   \* ApiKeyManager.currentIndex
  par,            \* par[f]: the activation of executeParallel for fan-out f
  intg,           \* the activation of executeIntegration
  req,            \* the request envelope (agentMode, modelSettings, ...)
  ctx,            \* the AgentContext threaded through the steps
  pc,             \* where the request handler (POST / start) stands
  frames,         \* what has been enqueued on the response stream, in order
  closed,         \* controller.close() has been called
  authFailed,     \* history: keys an attempt has failed on with 401/403
  stepCallFailed, \* history: an upstream call made for a step of the agent's
                  \* plan (the summary pre-step is none) has failed
  lastKey,        \* what the last direct getNextKey() returned (-1: it threw)
  served,         \* history: what the direct getNextKey() calls since the last
                  \* removeKey() returned, the last keyCount of them at most
  integrationsFailed, \* history: the ids of the executeIntegration calls
                  \* of plan steps that have thrown to their step
  cancelled,      \* the client has gone and the response stream is cancelled
  mockKept,       \* history: the keys that can be KEY_BAD of the scenario "key
                  \* rotation on 401", given how the upstream calls that have
                  \* settled were answered (MockedOutcome)
  client          \* generateResponseStreaming reading a response body: the
                  \* bytes sent and read, the decoder's and the line buffer's
                  \* contents, and the callbacks invoked so far

poolVars == <<envKeys, availableKeys, currentIndex>>
execVars == <<par, intg>>
reqVars == <<req, ctx, pc, closed>>
vars == <<envKeys, availableKeys, currentIndex, par, intg, req, ctx, pc,
          frames, closed, authFailed, stepCallFailed, lastKey, served,
          integrationsFailed, cancelled, mockKept, client>>

\* the two fan-outs a step may have running at once (executeEmotionAnalysis
\* starts the analyser fan-out and the answer fan-out together)
FanOuts == {1, 2}

NoReply == [model |-> 0, provider |-> "none", content |-> <<>>]

IdlePar ==
  [pc |-> "idle", modelTasks |-> <<>>, pendingTasks |-> <<>>,
   results |-> <<>>, ret |-> <<>>, keys0 |-> <<>>, transientOnly |-> TRUE]

DataFrame(chunk) == [tag |-> "DATA", body |-> chunk]

\* generateResponseStreaming before the response body is read (cuts is a
\* history field: where the chunks read so far have ended)
IdleClient ==
  [phase |-> "idle", wire |-> <<>>, read |-> 0, cuts |-> {}, pending |-> <<>>,
   buffer |-> <<>>, finalContent |-> <<>>, calls |-> <<>>]

IdleIntg ==
  [pc |-> "idle", modelId |-> "", attempts |-> 0, maxAttempts |-> 0,
   streaming |-> FALSE,
   apiKey |-> 0, fullText |-> <<>>, lastApiError |-> 0, calls |-> 0,
   ret |-> <<>>, keys0 |-> <<>>, transientOnly |-> TRUE, tried |-> {}]

(***************************************************************************)
(* executeParallel                                                         *)
(***************************************************************************)
\* messages is either a shared list or a Map from model id to a list
modelMessages(messages, model) ==
  IF messages.isMap
  THEN IF model.id \in DOMAIN messages.map THEN messages.map[model.id] ELSE <<>>
  ELSE messages.list

\* a task whose budget ignores the size of the pool
NewTaskFixedBudget(model, messages, keys) ==
  IF Len(modelMessages(messages, model)) = 0
  THEN [modelSettings |-> model, status |-> "failed", result |-> NoReply,
        messages |-> <<>>, attempts |-> 0, maxAttempts |-> 0, calls |-> 0,
        tried |-> {}]
  ELSE [modelSettings |-> model, status |-> "pending", result |-> NoReply,
        messages |-> modelMessages(messages, model),
        attempts |-> 0, maxAttempts |-> MIN_RETRY_ATTEMPTS, calls |-> 0,
        tried |-> {}]

\* 1. task initialisation (calls and tried are history fields: the upstream
\* calls made, and the keys they were made with)
NewTask(model, messages, keys) ==
  IF Len(modelMessages(messages, model)) = 0
  THEN [modelSettings |-> model, status |-> "failed", result |-> NoReply,
        messages |-> <<>>, attempts |-> 0, maxAttempts |-> 0, calls |-> 0,
        tried |-> {}]
  ELSE [modelSettings |-> model, status |-> "pending", result |-> NoReply,
        messages |-> modelMessages(messages, model),
        attempts |-> 0,
        maxAttempts |-> Max(keyCount(keys), MIN_RETRY_ATTEMPTS), calls |-> 0,
        tried |-> {}]

PendingOf(tasks) ==
  SelectSeq([i \in 1..Len(tasks) |-> i], LAMBDA i : tasks[i].status = "pending")

\* 3. the replies in completion order of the last round first (a wrong order)
CollectByRound(tasks) ==
  LET ok == SelectSeq([i \in 1..Len(tasks) |-> i],
                      LAMBDA i : tasks[i].status = "fulfilled")
  IN  [j \in 1..Len(ok) |-> tasks[ok[Len(ok) + 1 - j]].result]

\* 3. final collection: the fulfilled tasks' results, in task order
Collect(tasks) ==
  LET ok == SelectSeq([i \in 1..Len(tasks) |-> i],
                      LAMBDA i : tasks[i].status = "fulfilled")
  IN  [j \in 1..Len(ok) |-> tasks[ok[j]].result]

RECURSIVE AcquireKeys(_, _, _)
\* the keys n successive getNextKey() calls return from cursor idx
AcquireKeys(keys, idx, n) ==
  IF n = 0 THEN <<>>
  ELSE <<KeyAtCursor(keys, idx)>> \o AcquireKeys(keys, Advance(keys, idx), n - 1)

RECURSIVE AdvanceBy(_, _, _)
AdvanceBy(keys, idx, n) ==
  IF n = 0 THEN idx ELSE AdvanceBy(keys, Advance(keys, idx), n - 1)

\* 2a. one round: every pending task counts an attempt, takes the next key and
\* starts its upstream call; the function then awaits Promise.allSettled
StartRound(p, keys, idx) ==
  LET pending == p.pendingTasks
      got == AcquireKeys(keys, idx, Len(pending))
      started == {pending[i] : i \in 1..Len(pending)}
  IN  [p EXCEPT
         !.pc = "await",
         !.modelTasks =
           [t \in 1..Len(p.modelTasks) |->
              IF t \in started
              THEN [p.modelTasks[t] EXCEPT
                      !.attempts = @ + 1, !.calls = @ + 1,
                      !.tried = @ \cup {got[CHOOSE i \in 1..Len(pending) :
                                                    pending[i] = t]}]
              ELSE p.modelTasks[t]],
         !.results = [i \in 1..Len(pending) |->
                        [apiKey |-> got[i], state |-> "inflight", status |-> 0,
                         content |-> <<>>]]]

\* a function that throws as soon as one task has failed
LoopHeadThrowOnAnyFailure(p, keys, idx) ==
  IF Len(p.pendingTasks) > 0 /\ keyCount(keys) # 0
  THEN [par |-> StartRound(p, keys, idx),
        idx |-> AdvanceBy(keys, idx, Len(p.pendingTasks))]
  ELSE [par |-> [p EXCEPT
                   !.pc = IF Len(Collect(p.modelTasks)) < Len(p.modelTasks)
                          THEN "thrown" ELSE "returned",
                   !.results = <<>>,
                   !.ret = Collect(p.modelTasks)],
        idx |-> idx]

\* 2./3. the while loop's head, reached after initialisation and after every
\* round: either the next round starts, or the function collects and returns
\* (throws when no reply was collected)
\* the head of the loop without its check of keyCount
LoopHeadWithoutCountCheck(p, keys, idx) ==
  IF Len(p.pendingTasks) > 0
  THEN [par |-> StartRound(p, keys, idx),
        idx |-> AdvanceBy(keys, idx, Len(p.pendingTasks))]
  ELSE [par |-> [p EXCEPT
                   !.pc = IF Len(Collect(p.modelTasks)) = 0 THEN "thrown"
                          ELSE "returned",
                   !.results = <<>>,
                   !.ret = Collect(p.modelTasks)],
        idx |-> idx]

LoopHead(p, keys, idx) ==
  IF Len(p.pendingTasks) > 0 /\ keyCount(keys) # 0
  THEN [par |-> StartRound(p, keys, idx),
        idx |-> AdvanceBy(keys, idx, Len(p.pendingTasks))]
  ELSE [par |-> [p EXCEPT
                   !.pc = IF Len(Collect(p.modelTasks)) = 0 THEN "thrown"
                          ELSE "returned",
                   !.results = <<>>,
                   !.ret = Collect(p.modelTasks)],
        idx |-> idx]

\* executeParallel up to its first await: tasks, pending list, first round
\* (keys0 and transientOnly are history fields)
EnterParallel(models, messages, keys, idx) ==
  LET tasks == [i \in 1..Len(models) |-> NewTask(models[i], messages, keys)]
  IN  LoopHead([pc |-> "loop", modelTasks |-> tasks,
                pendingTasks |-> PendingOf(tasks), results |-> <<>>,
                ret |-> <<>>, keys0 |-> keys, transientOnly |-> TRUE],
               keys, idx)

\* a recalculation that gives every pending task one attempt more than the
\* keys that are left
RaiseBudgetsOneMore(tasks, remainingKeys) ==
  [t \in 1..Len(tasks) |->
     IF tasks[t].status = "pending"
     THEN [tasks[t] EXCEPT
             !.maxAttempts = Max(@, tasks[t].attempts + remainingKeys + 1)]
     ELSE tasks[t]]

\* the recalculation of every pending task's budget after a key was removed
RaiseBudgets(tasks, remainingKeys) ==
  [t \in 1..Len(tasks) |->
     IF tasks[t].status = "pending"
     THEN [tasks[t] EXCEPT
             !.maxAttempts = Max(@, tasks[t].attempts + remainingKeys)]
     ELSE tasks[t]]

\* 2b. the handling of one settled result of the round
ClassifyOne(st, t, res) ==
  IF res.state = "fulfilled"
  THEN [st EXCEPT !.tasks =
          [@ EXCEPT ![t].status = "fulfilled",
                    ![t].result = [model |-> st.tasks[t].modelSettings.name,
                                   provider |-> "cerebras",
                                   content |-> res.content]]]
  ELSE LET c == classifyError(res.status)
           keys1 == IF c.removeKey THEN FilterKey(st.keys, res.apiKey) ELSE st.keys
           idx1 == IF c.removeKey THEN Adjust(st.keys, st.idx, res.apiKey) ELSE st.idx
           tasks1 == IF c.removeKey THEN RaiseBudgets(st.tasks, keyCount(keys1))
                     ELSE st.tasks
       IN  IF c.isPermanent /\ c.removeModel
           THEN [st EXCEPT !.keys = keys1, !.idx = idx1,
                           !.tasks = [tasks1 EXCEPT ![t].status = "failed"]]
           ELSE IF tasks1[t].attempts < tasks1[t].maxAttempts
           THEN [st EXCEPT !.keys = keys1, !.idx = idx1, !.tasks = tasks1,
                           !.next = Append(@, t)]
           ELSE [st EXCEPT !.keys = keys1, !.idx = idx1,
                           !.tasks = [tasks1 EXCEPT ![t].status = "failed"]]

RECURSIVE ClassifyFrom(_, _, _, _)
\* 2b. the for loop over the round's results, in the order of pendingTasks
ClassifyFrom(i, st, pending, results) ==
  IF i > Len(results) THEN st
  ELSE ClassifyFrom(i + 1, ClassifyOne(st, pending[i], results[i]), pending, results)

ClassifyRound(p, keys, idx) ==
  ClassifyFrom(1, [tasks |-> p.modelTasks, keys |-> keys, idx |-> idx, next |-> <<>>],
               p.pendingTasks, p.results)

(***************************************************************************)
(* executeIntegration                                                      *)
(***************************************************************************)
\* the while loop's head: the next attempt takes a key and starts its upstream
\* call, or the function throws (budget used up, or no key left)
\* a loop that goes round once more when the attempts have reached the budget
IntLoopHeadAtLimit(g, keys, idx) ==
  IF g.attempts <= g.maxAttempts /\ keyCount(keys) # 0
  THEN [intg |-> [g EXCEPT !.pc = "call", !.attempts = @ + 1, !.calls = @ + 1,
                           !.apiKey = KeyAtCursor(keys, idx), !.fullText = <<>>,
                           !.tried = @ \cup {KeyAtCursor(keys, idx)}],
        idx |-> Advance(keys, idx)]
  ELSE [intg |-> [g EXCEPT !.pc = "thrown"], idx |-> idx]

IntLoopHead(g, keys, idx) ==
  IF g.attempts < g.maxAttempts /\ keyCount(keys) # 0
  THEN [intg |-> [g EXCEPT !.pc = "call", !.attempts = @ + 1, !.calls = @ + 1,
                           !.apiKey = KeyAtCursor(keys, idx), !.fullText = <<>>,
                           !.tried = @ \cup {KeyAtCursor(keys, idx)}],
        idx |-> Advance(keys, idx)]
  ELSE [intg |-> [g EXCEPT !.pc = "thrown"], idx |-> idx]

\* executeIntegration up to its first await (keys0, transientOnly and tried
\* are history fields)
EnterIntegration(modelId, streaming, keys, idx) ==
  IntLoopHead([pc |-> "loop", modelId |-> modelId, attempts |-> 0,
               maxAttempts |-> Max(keyCount(keys), MIN_RETRY_ATTEMPTS),
               streaming |-> streaming, apiKey |-> 0, fullText |-> <<>>,
               lastApiError |-> 0, calls |-> 0, ret |-> <<>>, keys0 |-> keys,
               transientOnly |-> TRUE, tried |-> {}],
              keys, idx)

\* a catch block that gives up on a model error (404, other 4xx but 429)
IntCatchDropModel(g, status, keys, idx) ==
  LET c == classifyError(status)
      evict == c.isPermanent /\ c.removeKey
      keys1 == IF evict THEN FilterKey(keys, g.apiKey) ELSE keys
      idx1 == IF evict THEN Adjust(keys, idx, g.apiKey) ELSE idx
      g1 == IF evict
            THEN [g EXCEPT !.lastApiError = status,
                           !.maxAttempts = Max(@, g.attempts + keyCount(keys1))]
            ELSE [g EXCEPT !.lastApiError = status]
      g2 == IF c.isPermanent /\ c.removeModel
            THEN [g1 EXCEPT !.maxAttempts = g1.attempts]
            ELSE g1
  IN  [keys |-> keys1, idx |-> idx1, intg |-> g2]

\* the catch block of one failed attempt: a key error removes the key and
\* raises the budget; every other failure (404 and 500 alike) is retried
IntCatch(g, status, keys, idx) ==
  LET c == classifyError(status)
      evict == c.isPermanent /\ c.removeKey
      keys1 == IF evict THEN FilterKey(keys, g.apiKey) ELSE keys
      idx1 == IF evict THEN Adjust(keys, idx, g.apiKey) ELSE idx
      g1 == IF evict
            THEN [g EXCEPT !.lastApiError = status,
                           !.maxAttempts = Max(@, g.attempts + keyCount(keys1))]
            ELSE [g EXCEPT !.lastApiError = status]
  IN  [keys |-> keys1, idx |-> idx1, intg |-> g1]

(***************************************************************************)
(* Values the environment supplies                                         *)
(***************************************************************************)
\* the texts a buffered upstream call may return
ReplyTexts == {<<>>, <<"a">>}

\* the texts the planner's upstream call may return: an empty JSON array, a
\* JSON array of two entries, and a text that is no JSON
PlanTexts == {<<"[", "]">>, <<"[", "t", "u", "]">>, <<"a">>}

\* what a buffered executeIntegration call for the given model id may return
BufferedTexts(modelId) ==
  IF modelId \in {"planner", "hypothesis"} THEN PlanTexts ELSE ReplyTexts

\* the statuses the calls of a whole request are let to fail with: one key
\* error, one model error, one transient error
RequestStatuses == {401, 404, 500}

IsAuthStatus(s) == s = 401 \/ s = 403
IsTransientStatus(s) == s = 429 \/ (s >= 500 /\ s < 600)

\* the raw comma-separated entries of CEREBRAS_API_KEYS (0: a blank entry)
RawEnvs(n) == SeqsUpTo(0..n, n)

\* the key lists up to a renaming of the keys: a key's first occurrence comes
\* after the first occurrences of all smaller keys (the code only ever
\* compares keys for equality, so one list stands for its renamings)
UpToRenaming(n) ==
  {e \in SeqsUpTo(1..n, n) :
     \A i \in 1..Len(e) :
       e[i] = 1 \/ \E j \in 1..(i - 1) : e[j] = e[i] - 1}

\* model ids are tuples: <<i>> for the i-th configured model
ModelList(n) == [i \in 1..n |-> [id |-> <<i>>, name |-> i]]

SharedMessages(list) == [isMap |-> FALSE, list |-> list, map |-> <<>>]
MapMessages(m) == [isMap |-> TRUE, list |-> <<>>, map |-> m]

(***************************************************************************)
(* Actions of the key pool                                                 *)
(***************************************************************************)
\* new ApiKeyManager(getApiKeys()) for a non-empty key list
PoolInit(raws) ==
  \E raw \in raws :
    /\ getApiKeys(raw) # <<>>
    /\ envKeys = getApiKeys(raw)
    /\ availableKeys \in Shuffles(getApiKeys(raw))
    /\ currentIndex = 0

GetNextKey ==
  /\ Len(availableKeys) # 0
  /\ currentIndex' = Advance(availableKeys, currentIndex)
  /\ lastKey' = KeyAtCursor(availableKeys, currentIndex)
  /\ served' = LET s == Append(served, KeyAtCursor(availableKeys, currentIndex))
                IN  IF Len(s) > Len(availableKeys) THEN Tail(s) ELSE s
  /\ UNCHANGED <<envKeys, availableKeys, execVars, reqVars, frames, authFailed, stepCallFailed, integrationsFailed, cancelled, mockKept,
                 client>>

\* getNextKey() on an empty pool throws and changes nothing
GetNextKeyThrows ==
  /\ Len(availableKeys) = 0
  /\ lastKey' = -1
  /\ UNCHANGED <<poolVars, execVars, reqVars, frames, authFailed, stepCallFailed, integrationsFailed, cancelled, mockKept, served,
                 client>>

RemoveKey(k) ==
  /\ availableKeys' = FilterKey(availableKeys, k)
  /\ currentIndex' = Adjust(availableKeys, currentIndex, k)
  /\ served' = <<>>
  /\ UNCHANGED <<envKeys, execVars, reqVars, frames, authFailed, stepCallFailed, integrationsFailed, cancelled, mockKept, lastKey,
                 client>>

(***************************************************************************)
(* Continuations that are due.  A continuation of an awaited promise runs  *)
(* as a microtask, before the next upstream event is handled.              *)
(***************************************************************************)
\* the statuses an upstream call may fail with in the current state
UpstreamStatuses == IF pc.phase = "library" THEN Statuses ELSE RequestStatuses

\* what an upstream call may fail with: a response of one of these statuses,
\* or an error without a response (0)
UpstreamCauses == UpstreamStatuses \cup {0}

Finished(x) == x.pc \in {"returned", "thrown"}

\* all calls of fan-out f's round have settled: Promise.allSettled resolves
RoundDue(f) ==
  /\ par[f].pc = "await"
  /\ \A i \in 1..Len(par[f].results) : par[f].results[i].state # "inflight"

\* what the running step awaits has settled
ResumeDue ==
  \/ pc.phase = "summarize" /\ Finished(intg)
  \/ /\ pc.phase = "run"
     /\ \/ pc.sub = "integration" /\ Finished(intg)
        \/ pc.sub = "parallel" /\ Finished(par[1])
        \/ /\ pc.sub = "both"
           /\ \/ par[1].pc = "thrown" \/ par[2].pc = "thrown"
              \/ par[1].pc = "returned" /\ par[2].pc = "returned"

NothingDue == ~ResumeDue /\ \A f \in FanOuts : ~RoundDue(f)

\* the scenario's mock of the upstream: every call on KEY_BAD fails with 401,
\* every call on another key returns "ok" (the one text part there is)
MockedOutcome(KEY_BAD, apiKey, status, content) ==
  IF apiKey = KEY_BAD THEN status = 401
  ELSE status = 200 /\ content = <<"a">>

\* the keys that can still be KEY_BAD once a call on apiKey has settled
StillMocked(apiKey, status, content) ==
  {k \in mockKept : MockedOutcome(k, apiKey, status, content)}

(***************************************************************************)
(* Actions of executeParallel                                              *)
(***************************************************************************)
\* one upstream call of the round settles: callLlmApi returns the text, or
\* throws an LlmApiError carrying the status and the key
ParCallSettles(f) ==
  /\ NothingDue
  /\ par[f].pc = "await"
  /\ \E i \in 1..Len(par[f].results) :
       /\ par[f].results[i].state = "inflight"
       /\ \/ \E c \in ReplyTexts :
               /\ par' = [par EXCEPT ![f].results[i].state = "fulfilled",
                                     ![f].results[i].content = c]
               /\ mockKept' = StillMocked(par[f].results[i].apiKey, 200, c)
               /\ UNCHANGED <<authFailed, stepCallFailed,
                 client>>
          \/ \E cause \in UpstreamCauses :
               LET s == statusOfError(cause)
               IN  /\ par' = [par EXCEPT ![f].results[i].state = "rejected",
                                         ![f].results[i].status = s]
                   /\ authFailed' = IF IsAuthStatus(s)
                                    THEN authFailed \cup {par[f].results[i].apiKey}
                                    ELSE authFailed
                   /\ stepCallFailed' = (stepCallFailed \/ pc.phase = "run")
                   /\ mockKept' = StillMocked(par[f].results[i].apiKey, s, <<>>)
  /\ UNCHANGED <<poolVars, intg, reqVars, frames, lastKey, served,
                 integrationsFailed, cancelled,
                 client>>

\* Promise.allSettled resolves: the results are classified in order, the
\* loop goes round (next calls start) or the function returns / throws
ParRoundSettled(f) ==
  /\ RoundDue(f)
  /\ LET st == ClassifyRound(par[f], availableKeys, currentIndex)
         p1 == [par[f] EXCEPT
                  !.modelTasks = st.tasks,
                  !.pendingTasks = st.next,
                  !.transientOnly =
                     @ /\ \A i \in 1..Len(par[f].results) :
                            par[f].results[i].state = "rejected"
                              => IsTransientStatus(par[f].results[i].status)]
         nx == LoopHead(p1, st.keys, st.idx)
     IN  /\ par' = [par EXCEPT ![f] = nx.par]
         /\ availableKeys' = st.keys
         /\ currentIndex' = nx.idx
  /\ UNCHANGED <<envKeys, intg, reqVars, frames, authFailed, stepCallFailed, integrationsFailed, cancelled, mockKept, lastKey, served,
                 client>>

(***************************************************************************)
(* Actions of executeIntegration                                           *)
(***************************************************************************)
\* the upstream stream delivers one more textPart and callLlmApiStreaming
\* forwards it as a DATA frame
\* the attempt under way throws an LlmApiError with status s: the catch block
\* of executeIntegration, then the head of its loop
IntAttemptFails(s) ==
  LET c == IntCatch([intg EXCEPT !.transientOnly = @ /\ IsTransientStatus(s)],
                    s, availableKeys, currentIndex)
      nx == IntLoopHead(c.intg, c.keys, c.idx)
  IN  /\ intg' = nx.intg
      /\ availableKeys' = c.keys
      /\ currentIndex' = nx.idx

\* the upstream stream delivers a text part, which is enqueued as a DATA
\* frame; on a cancelled stream the enqueue throws inside the try block of
\* callLlmApiStreaming, which makes an LlmApiError with status 500 of it
IntChunk ==
  /\ NothingDue
  /\ intg.pc = "call"
  /\ intg.streaming
  /\ Len(intg.fullText) < MaxChunks
  /\ \E tok \in Tokens :
       IF cancelled
       THEN /\ IntAttemptFails(500)
            /\ frames' = frames
       ELSE /\ intg' = [intg EXCEPT !.fullText = Append(@, tok)]
            /\ frames' = Append(frames, DataFrame(<<tok>>))
            /\ UNCHANGED <<availableKeys, currentIndex,
                 client>>
  /\ UNCHANGED <<envKeys, par, reqVars, authFailed, stepCallFailed,
                 integrationsFailed, cancelled, mockKept, lastKey, served,
                 client>>

\* the upstream stream ends: callLlmApiStreaming returns the text it has
\* forwarded, callLlmApi the text it has accumulated
IntCallReturns ==
  /\ NothingDue
  /\ intg.pc = "call"
  /\ \E text \in IF intg.streaming THEN {intg.fullText}
                 ELSE BufferedTexts(intg.modelId) :
       /\ intg' = [intg EXCEPT !.pc = "returned", !.ret = text]
       /\ mockKept' = StillMocked(intg.apiKey, 200, text)
  /\ UNCHANGED <<poolVars, par, reqVars, frames, authFailed, stepCallFailed,
                 integrationsFailed, cancelled, lastKey, served,
                 client>>

\* the upstream call throws: catch block, then the loop's head again
IntCallThrows ==
  /\ NothingDue
  /\ intg.pc = "call"
  /\ \E cause \in UpstreamCauses :
       LET s == statusOfError(cause)
       IN  /\ IntAttemptFails(s)
           /\ authFailed' = IF IsAuthStatus(s) THEN authFailed \cup {intg.apiKey}
                            ELSE authFailed
           /\ stepCallFailed' = (stepCallFailed \/ pc.phase = "run")
           /\ mockKept' = StillMocked(intg.apiKey, s, <<>>)
  /\ UNCHANGED <<envKeys, par, reqVars, frames, lastKey, served,
                 integrationsFailed, cancelled,
                 client>>

(***************************************************************************)
(* The key pool and the executors taken alone                              *)
(***************************************************************************)
NoReq == [agentMode |-> "none"]
NoCtx == [llmMessages |-> <<>>]
Library == [phase |-> "library", i |-> 0, sub |-> "", http |-> 0]

Quiet ==
  /\ par = [f \in FanOuts |-> IdlePar]
  /\ intg = IdleIntg
  /\ req = NoReq
  /\ ctx = NoCtx
  /\ pc = Library
  /\ frames = <<>>
  /\ closed = FALSE
  /\ authFailed = {}
  /\ stepCallFailed = FALSE
  /\ integrationsFailed = {}
  /\ cancelled = FALSE
  /\ mockKept = 1..MaxKeys
  /\ client = IdleClient
  /\ lastKey = 0
  /\ served = <<>>

\* a pool some getNextKey() calls have already been made on; the shuffle
\* left the keys in the order they are numbered in
PoolInUse(n) ==
  \E e \in UpToRenaming(n) :
    /\ e # <<>>
    /\ envKeys = e
    /\ availableKeys = e
    /\ e \in Shuffles(getApiKeys(e))
    /\ currentIndex \in 0..(Len(e) - 1)

\* the message arguments a caller may pass: a shared list (empty or not), or a
\* Map that has a non-empty list for some of the model ids
MessageArgs(n) ==
  {SharedMessages(l) : l \in {<<>>, <<"user">>}}
    \cup {MapMessages([id \in {<<i>> : i \in D} |-> <<"system", "user">>]) :
            D \in SUBSET (1..n)}

\* a caller invokes executeParallel(apiKeyManager, modelsToRun, messages)
CallExecuteParallel ==
  /\ pc = Library
  /\ par[1].pc = "idle"
  /\ intg.pc = "idle"
  /\ \E n \in 0..MaxModels : \E m \in MessageArgs(n) :
       LET e == EnterParallel(ModelList(n), m, availableKeys, currentIndex)
       IN  /\ par' = [par EXCEPT ![1] = e.par]
           /\ currentIndex' = e.idx
  /\ UNCHANGED <<envKeys, availableKeys, intg, reqVars, frames, authFailed, stepCallFailed, integrationsFailed, cancelled, mockKept, lastKey, served,
                 client>>

\* a caller invokes executeIntegration, with or without a stream controller
CallExecuteIntegration ==
  /\ pc = Library
  /\ intg.pc = "idle"
  /\ par[1].pc = "idle"
  /\ \E streaming \in BOOLEAN :
       LET e == EnterIntegration("integrator", streaming, availableKeys, currentIndex)
       IN  /\ intg' = e.intg
           /\ currentIndex' = e.idx
  /\ UNCHANGED <<envKeys, availableKeys, par, reqVars, frames, authFailed, stepCallFailed, integrationsFailed, cancelled, mockKept, lastKey, served,
                 client>>

InitPool == PoolInit(RawEnvs(MaxLibKeys)) /\ Quiet
NextPool == GetNextKey \/ GetNextKeyThrows \/ \E k \in KeyIds : RemoveKey(k)
SpecPool == InitPool /\ [][NextPool]_vars

\* either executor, called once on a pool in use
InitExec == PoolInUse(MaxLibKeys) /\ Quiet
NextExec ==
  \/ CallExecuteParallel
  \/ ParCallSettles(1)
  \/ ParRoundSettled(1)
  \/ CallExecuteIntegration
  \/ IntChunk
  \/ IntCallReturns
  \/ IntCallThrows
SpecExec == InitExec /\ [][NextExec]_vars

InitInt == PoolInUse(MaxLibKeys) /\ Quiet
NextInt == CallExecuteIntegration \/ IntChunk \/ IntCallReturns \/ IntCallThrows
SpecInt == InitInt /\ [][NextInt]_vars

(***************************************************************************)
(* The step library.  A step function is a transformation of the world w  *)
(* (pool, executors, context, position, stream): called with resumed =     *)
(* FALSE it runs up to its first await, called with resumed = TRUE it runs *)
(* on from the await that has settled.  w.sig tells how it left: "wait"    *)
(* (awaiting an executor), "next" (returned) or "throw" (w.err thrown).    *)
(***************************************************************************)
CONVERSATION_THRESHOLD == 10
CONTENT_LENGTH_THRESHOLD == 30000

World ==
  [keys |-> availableKeys, idx |-> currentIndex, par |-> par, intg |-> intg,
   ctx |-> ctx, pc |-> pc, frames |-> frames, closed |-> closed,
   sig |-> "next", err |-> ""]

Becomes(w) ==
  /\ availableKeys' = w.keys
  /\ currentIndex' = w.idx
  /\ par' = w.par
  /\ intg' = w.intg
  /\ ctx' = w.ctx
  /\ pc' = w.pc
  /\ frames' = w.frames
  /\ closed' = w.closed

Proceed(w) == [w EXCEPT !.sig = "next"]
Await(w, sub) == [w EXCEPT !.sig = "wait", !.pc.sub = sub]
Raise(w, msg) == [w EXCEPT !.sig = "throw", !.err = msg]

\* the call executeParallel(apiKeyManager, models, messages), up to its await
StartParallel(w, f, models, messages) ==
  LET e == EnterParallel(models, messages, w.keys, w.idx)
  IN  [w EXCEPT !.par[f] = e.par, !.idx = e.idx]

\* the call executeIntegration(apiKeyManager, prompt, {.., id}, controller?)
StartIntegration(w, modelId, streaming) ==
  LET e == EnterIntegration(modelId, streaming, w.keys, w.idx)
  IN  [w EXCEPT !.intg = e.intg, !.idx = e.idx]

\* the settled executor's activation is dropped
ReleaseParallel(w, f) == [w EXCEPT !.par[f] = IdlePar]
ReleaseIntegration(w) == [w EXCEPT !.intg = IdleIntg]

StatusFrame(stepName) == [tag |-> "STATUS", body |-> stepName]
ResponsesFrame(responses) == [tag |-> "MODEL_RESPONSES", body |-> responses]
ErrorFrame(message) == [tag |-> "ERROR", body |-> message]
SummaryFrame(context) == [tag |-> "SUMMARY_EXECUTED", body |-> context]

\* controller.enqueue(frame): it throws a TypeError on a stream that has been
\* cancelled
Enqueue(w, frame) ==
  IF cancelled THEN Raise(w, "TypeError")
  ELSE [w EXCEPT !.frames = Append(@, frame)]

\* llmMessages.at(-1)
LastMessage(messages) ==
  IF Len(messages) = 0 THEN "undefined" ELSE messages[Len(messages)]

\* the Message kept for the client's history and the CoreMessage the steps
\* go on with: both carry the summariser's text behind a fixed heading
summaryMessage(summaryContent) ==
  [id |-> "msg_summary", role |-> "system",
   content |-> <<"[summary]">> \o summaryContent]

summaryCoreMessage(summaryContent) ==
  [role |-> "system", content |-> summaryMessage(summaryContent).content]

\* a summarizeHistory whose catch block goes on with the last message only
summarizeHistoryDroppingHistory(w, resumed) ==
  IF ~resumed
  THEN LET isTooLongByCount == Len(w.ctx.llmMessages) > CONVERSATION_THRESHOLD
           isTooLongByLength == w.ctx.totalContentLength > CONTENT_LENGTH_THRESHOLD
       IN  IF ~w.ctx.appSettings.summarizerModel
              \/ (~isTooLongByCount /\ ~isTooLongByLength)
           THEN Proceed([w EXCEPT !.ctx.summaryExecuted = FALSE,
                                  !.ctx.newHistoryContext = <<>>])
           ELSE Await(StartIntegration(w, "summarizer", FALSE), "integration")
  ELSE IF w.intg.pc = "returned"
  THEN Proceed(ReleaseIntegration(
         [w EXCEPT !.ctx.llmMessages = <<summaryCoreMessage(w.intg.ret),
                                         LastMessage(w.ctx.llmMessages)>>,
                   !.ctx.summaryExecuted = TRUE,
                   !.ctx.newHistoryContext = <<summaryMessage(w.intg.ret)>>]))
  ELSE Proceed(ReleaseIntegration(
         [w EXCEPT !.ctx.llmMessages = <<LastMessage(w.ctx.llmMessages)>>,
                   !.ctx.summaryExecuted = FALSE,
                   !.ctx.newHistoryContext = <<>>]))

\* a summarizeHistory that is triggered at the thresholds already
summarizeHistoryAtThreshold(w, resumed) ==
  IF ~resumed
  THEN LET isTooLongByCount == Len(w.ctx.llmMessages) >= CONVERSATION_THRESHOLD
           isTooLongByLength == w.ctx.totalContentLength >= CONTENT_LENGTH_THRESHOLD
       IN  IF ~w.ctx.appSettings.summarizerModel
              \/ (~isTooLongByCount /\ ~isTooLongByLength)
           THEN Proceed([w EXCEPT !.ctx.summaryExecuted = FALSE,
                                  !.ctx.newHistoryContext = <<>>])
           ELSE Await(StartIntegration(w, "summarizer", FALSE), "integration")
  ELSE IF w.intg.pc = "returned"
  THEN Proceed(ReleaseIntegration(
         [w EXCEPT !.ctx.llmMessages = <<summaryCoreMessage(w.intg.ret),
                                         LastMessage(w.ctx.llmMessages)>>,
                   !.ctx.summaryExecuted = TRUE,
                   !.ctx.newHistoryContext = <<summaryMessage(w.intg.ret)>>]))
  ELSE Proceed(ReleaseIntegration(
         [w EXCEPT !.ctx.summaryExecuted = FALSE,
                   !.ctx.newHistoryContext = <<>>]))

\* summarizeHistory: nothing to do (no summariser model, or the history is
\* below both thresholds), or one buffered executeIntegration call; its
\* text replaces all messages but the last one, its failure changes nothing
\* (newHistoryContext: <<>> stands for null)
summarizeHistory(w, resumed) ==
  IF ~resumed
  THEN LET isTooLongByCount == Len(w.ctx.llmMessages) > CONVERSATION_THRESHOLD
           isTooLongByLength == w.ctx.totalContentLength > CONTENT_LENGTH_THRESHOLD
       IN  IF ~w.ctx.appSettings.summarizerModel
              \/ (~isTooLongByCount /\ ~isTooLongByLength)
           THEN Proceed([w EXCEPT !.ctx.summaryExecuted = FALSE,
                                  !.ctx.newHistoryContext = <<>>])
           ELSE Await(StartIntegration(w, "summarizer", FALSE), "integration")
  ELSE IF w.intg.pc = "returned"
  THEN Proceed(ReleaseIntegration(
         [w EXCEPT !.ctx.llmMessages = <<summaryCoreMessage(w.intg.ret),
                                         LastMessage(w.ctx.llmMessages)>>,
                   !.ctx.summaryExecuted = TRUE,
                   !.ctx.newHistoryContext = <<summaryMessage(w.intg.ret)>>]))
  ELSE Proceed(ReleaseIntegration(
         [w EXCEPT !.ctx.summaryExecuted = FALSE,
                   !.ctx.newHistoryContext = <<>>]))

\* JSON.parse(cleanJsonOutput(raw)) as planSubtasks and generateHypotheses use
\* it: the entries of a JSON array, else the whole text as the only entry
ParseTaskList(raw) ==
  LET clean == SelectSeq(raw, LAMBDA t : t # "fence")
  IN  IF Len(clean) >= 2 /\ clean[1] = "[" /\ clean[Len(clean)] = "]"
      THEN SubSeq(clean, 2, Len(clean) - 1)
      ELSE <<"raw">>

\* a planner step that takes a failed call for an empty task list
planSubtasksSwallowingFailure(w, resumed) ==
  IF ~resumed
  THEN IF ~w.ctx.appSettings.integratorModel
       THEN Raise(w, "planSubtasks: no integrator model")
       ELSE Await(StartIntegration(w, "planner", FALSE), "integration")
  ELSE IF w.intg.pc = "thrown"
  THEN Proceed(ReleaseIntegration([w EXCEPT !.ctx.subTasks = <<>>]))
  ELSE Proceed(ReleaseIntegration(
         [w EXCEPT !.ctx.subTasks = ParseTaskList(w.intg.ret)]))

planSubtasks(w, resumed) ==
  IF ~resumed
  THEN IF ~w.ctx.appSettings.integratorModel
       THEN Raise(w, "planSubtasks: no integrator model")
       ELSE Await(StartIntegration(w, "planner", FALSE), "integration")
  ELSE IF w.intg.pc = "thrown"
  THEN Raise(ReleaseIntegration(w), "IntegrationFailed")
  ELSE Proceed(ReleaseIntegration(
         [w EXCEPT !.ctx.subTasks = ParseTaskList(w.intg.ret)]))

generateHypotheses(w, resumed) ==
  IF ~resumed
  THEN IF ~w.ctx.appSettings.integratorModel
       THEN Raise(w, "generateHypotheses: no integrator model")
       ELSE Await(StartIntegration(w, "hypothesis", FALSE), "integration")
  ELSE IF w.intg.pc = "thrown"
  THEN Raise(ReleaseIntegration(w), "IntegrationFailed")
  ELSE Proceed(ReleaseIntegration(
         [w EXCEPT !.ctx.subTasks = ParseTaskList(w.intg.ret),
                   !.ctx.isHypothesis = TRUE]))

\* executeStandard without its check of the enabled models
executeStandardUnguarded(w, resumed) ==
  IF ~resumed
  THEN Await(StartParallel(w, 1, w.ctx.enabledModels,
                           SharedMessages(w.ctx.llmMessages)), "parallel")
  ELSE IF w.par[1].pc = "thrown"
  THEN Raise(ReleaseParallel(w, 1), "AllFailed")
  ELSE Proceed(ReleaseParallel(
         [w EXCEPT !.ctx.parallelResponses = w.par[1].ret], 1))

executeStandard(w, resumed) ==
  IF ~resumed
  THEN IF Len(w.ctx.enabledModels) = 0
       THEN Raise(w, "no enabled models")
       ELSE Await(StartParallel(w, 1, w.ctx.enabledModels,
                                SharedMessages(w.ctx.llmMessages)), "parallel")
  ELSE IF w.par[1].pc = "thrown"
  THEN Raise(ReleaseParallel(w, 1), "AllFailed")
  ELSE Proceed(ReleaseParallel(
         [w EXCEPT !.ctx.parallelResponses = w.par[1].ret], 1))

executeExpertTeam(w, resumed) ==
  IF ~resumed
  THEN IF Len(w.ctx.enabledModels) = 0
       THEN Raise(w, "no enabled models")
       ELSE IF ~w.ctx.appSettings.integratorModel
       THEN Raise(w, "executeExpertTeam: no integrator model")
       ELSE Await(StartIntegration(w, "role_generator", FALSE), "integration")
  ELSE IF w.pc.sub = "integration"
  THEN \* roles generated, or the fallback roles: every model gets the history
       \* with its role instruction in front
       LET ids == {w.ctx.enabledModels[i].id : i \in 1..Len(w.ctx.enabledModels)}
           expertMessagesMap == [id \in ids |-> <<"system">> \o w.ctx.llmMessages]
       IN  Await(StartParallel(ReleaseIntegration(w), 1, w.ctx.enabledModels,
                               MapMessages(expertMessagesMap)), "parallel")
  ELSE IF w.par[1].pc = "thrown"
  THEN Raise(ReleaseParallel(w, 1), "AllFailed")
  ELSE Proceed(ReleaseParallel(
         [w EXCEPT !.ctx.parallelResponses = w.par[1].ret], 1))

\* the white space String.prototype.trim removes
Whitespace == {" ", "\n"}

RECURSIVE TrimStart(_)
TrimStart(text) ==
  IF text # <<>> /\ text[1] \in Whitespace THEN TrimStart(Tail(text)) ELSE text

RECURSIVE TrimEnd(_)
TrimEnd(text) ==
  IF text # <<>> /\ text[Len(text)] \in Whitespace
  THEN TrimEnd(SubSeq(text, 1, Len(text) - 1)) ELSE text

\* String.prototype.trim
Trim(text) == TrimEnd(TrimStart(text))

\* the position of the first tok in s at or after from (0: there is none)
FirstIndex(s, tok, from) ==
  IF \E i \in from..Len(s) : s[i] = tok
  THEN CHOOSE i \in from..Len(s) :
         s[i] = tok /\ \A j \in from..(i - 1) : s[j] # tok
  ELSE 0

\* a parser that keeps the white space around the two captures
ParseDeepThoughtUntrimmed(res) ==
  LET c == res.content
      open == FirstIndex(c, "[T]", 1)
      close == IF open = 0 THEN 0 ELSE FirstIndex(c, "[/T]", open + 1)
      answer == FirstIndex(c, "[A]", 1)
  IN  [model |-> res.model, provider |-> res.provider,
       content |-> IF answer = 0 THEN c ELSE SubSeq(c, answer + 1, Len(c)),
       thought |-> IF close = 0 THEN <<"failed">>
                   ELSE SubSeq(c, open + 1, close - 1)]

\* the split of a reply into its thought and its final answer: the first
\* "[T]" that has a "[/T]" after it and the text up to the first such "[/T]",
\* trimmed; the text after the first "[A]", trimmed, or the whole reply as it
\* is when there is no "[A]"  ("[T]", "[/T]" and "[A]" are the three markers)
ParseDeepThought(res) ==
  LET c == res.content
      open == FirstIndex(c, "[T]", 1)
      close == IF open = 0 THEN 0 ELSE FirstIndex(c, "[/T]", open + 1)
      answer == FirstIndex(c, "[A]", 1)
  IN  [model |-> res.model, provider |-> res.provider,
       content |-> IF answer = 0 THEN c ELSE Trim(SubSeq(c, answer + 1, Len(c))),
       thought |-> IF close = 0 THEN <<"failed">>
                   ELSE Trim(SubSeq(c, open + 1, close - 1))]

executeDeepThought(w, resumed) ==
  IF ~resumed
  THEN IF Len(w.ctx.enabledModels) = 0
       THEN Raise(w, "no enabled models")
       ELSE Await(StartParallel(w, 1, w.ctx.enabledModels,
                                SharedMessages(Append(w.ctx.llmMessages, "system"))),
                  "parallel")
  ELSE IF w.par[1].pc = "thrown"
  THEN Raise(ReleaseParallel(w, 1), "AllFailed")
  ELSE Proceed(ReleaseParallel(
         [w EXCEPT !.ctx.parallelResponses =
            [i \in 1..Len(w.par[1].ret) |-> ParseDeepThought(w.par[1].ret[i])]], 1))

executeGenerators(w, resumed) ==
  IF ~resumed
  THEN IF Len(w.ctx.enabledModels) = 0
       THEN Raise(w, "no enabled models")
       ELSE Await(StartParallel(w, 1, w.ctx.enabledModels,
                                SharedMessages(w.ctx.llmMessages)), "parallel")
  ELSE IF w.par[1].pc = "thrown"
  THEN Raise(ReleaseParallel(w, 1), "AllFailed")
  ELSE Proceed(ReleaseParallel(
         [w EXCEPT !.ctx.parallelResponses = w.par[1].ret], 1))

executeRouter(w, resumed) ==
  IF ~resumed
  THEN IF Len(w.ctx.enabledModels) = 0
       THEN Raise(w, "no enabled models")
       ELSE IF ~w.ctx.appSettings.integratorModel
       THEN Raise(w, "executeRouter: no integrator model")
       ELSE Await(StartIntegration(w, "router", FALSE), "integration")
  ELSE \* the generated instruction, or the fallback one, goes in front
       Proceed(ReleaseIntegration(
         [w EXCEPT !.ctx.llmMessages = <<"system">> \o w.ctx.llmMessages]))

executeSubtasks(w, resumed) ==
  IF ~resumed
  THEN IF Len(w.ctx.subTasks) = 0
       THEN Raise(w, "no subtasks")
       ELSE IF Len(w.ctx.enabledModels) = 0
       THEN Raise(w, "executeSubtasks: no enabled models")
       ELSE LET n == Len(w.ctx.enabledModels)
                modelsToRun ==
                  [k \in 1..Len(w.ctx.subTasks) |->
                     LET baseModel == w.ctx.enabledModels[((k - 1) % n) + 1]
                     IN  [baseModel EXCEPT !.id = <<baseModel.id[1], k - 1>>]]
                messagesMap ==
                  [id \in {modelsToRun[k].id : k \in 1..Len(modelsToRun)} |->
                     Append(w.ctx.llmMessages, "system")]
            IN  Await(StartParallel(w, 1, modelsToRun, MapMessages(messagesMap)),
                      "parallel")
  ELSE IF w.par[1].pc = "thrown"
  THEN Raise(ReleaseParallel(w, 1), "AllFailed")
  ELSE Proceed(ReleaseParallel(
         [w EXCEPT !.ctx.parallelResponses = w.par[1].ret], 1))

executeCritics(w, resumed) ==
  IF ~resumed
  THEN IF Len(w.ctx.enabledModels) = 0
       THEN Raise(w, "no enabled models")
       ELSE IF Len(w.ctx.parallelResponses) = 0
       THEN Raise(w, "executeCritics: no drafts")
       ELSE Await(StartParallel(w, 1, w.ctx.enabledModels,
                                SharedMessages(<<"user", "system", "user">>)),
                  "parallel")
  ELSE IF w.par[1].pc = "thrown"
  THEN Raise(ReleaseParallel(w, 1), "AllFailed")
  ELSE Proceed(ReleaseParallel([w EXCEPT !.ctx.critiques = w.par[1].ret], 1))

\* fan-out 1 is the analyser, fan-out 2 the answers; Promise.all rejects as
\* soon as one of them has thrown, and the other one goes on running
executeEmotionAnalysis(w, resumed) ==
  IF ~resumed
  THEN IF Len(w.ctx.enabledModels) = 0
       THEN Raise(w, "no enabled models")
       ELSE LET analysis ==
                  StartParallel(w, 1, <<w.ctx.enabledModels[1]>>,
                                SharedMessages(Append(w.ctx.llmMessages, "system")))
            IN  Await(StartParallel(analysis, 2, w.ctx.enabledModels,
                                    SharedMessages(w.ctx.llmMessages)), "both")
  ELSE IF w.par[1].pc = "thrown" \/ w.par[2].pc = "thrown"
  THEN Raise([w EXCEPT !.par = [f \in FanOuts |->
                                  IF Finished(w.par[f]) THEN IdlePar ELSE w.par[f]]],
             "AllFailed")
  ELSE LET analysisResponses == w.par[1].ret
           standardResponses == w.par[2].ret
       IN  Proceed(ReleaseParallel(ReleaseParallel(
             [w EXCEPT
                !.ctx.critiques = analysisResponses,
                !.ctx.parallelResponses =
                   IF Len(standardResponses) = 0 /\ Len(analysisResponses) > 0
                   THEN [i \in 1..Len(analysisResponses) |->
                           [analysisResponses[i] EXCEPT
                              !.content = <<"analysis">> \o @]]
                   ELSE standardResponses], 1), 2))

\* the tail the five integrate steps share: the streaming executeIntegration
\* call has settled
FinishIntegration(w, modelResponses) ==
  IF w.intg.pc = "thrown"
  THEN Raise(ReleaseIntegration(w), "IntegrationFailed")
  ELSE Proceed(ReleaseIntegration(
         [w EXCEPT !.ctx.finalContent = w.intg.ret,
                   !.ctx.modelResponses = modelResponses,
                   !.ctx.hasModelResponses = TRUE,
                   !.ctx.finalContentStreamed = TRUE]))

\* an integrateStandard whose shortcut does not mark the reply as streamed
integrateStandardNotMarkingStreamed(w, resumed) ==
  IF ~resumed
  THEN IF ~w.ctx.appSettings.integratorModel
       THEN Raise(w, "no integrator model")
       ELSE IF Len(w.ctx.parallelResponses) = 0
       THEN Raise(w, "no parallel responses")
       ELSE IF Len(w.ctx.parallelResponses) = 1
       THEN LET w1 == Enqueue(w, DataFrame(w.ctx.parallelResponses[1].content))
            IN  IF w1.sig = "throw" THEN w1
                ELSE Proceed([w1 EXCEPT
                       !.ctx.finalContent = w.ctx.parallelResponses[1].content,
                       !.ctx.modelResponses = w.ctx.parallelResponses,
                       !.ctx.hasModelResponses = TRUE])
       ELSE Await(StartIntegration(w, "integrator", TRUE), "integration")
  ELSE FinishIntegration(w, w.ctx.parallelResponses)

integrateStandard(w, resumed) ==
  IF ~resumed
  THEN IF ~w.ctx.appSettings.integratorModel
       THEN Raise(w, "no integrator model")
       ELSE IF Len(w.ctx.parallelResponses) = 0
       THEN Raise(w, "no parallel responses")
       ELSE IF Len(w.ctx.parallelResponses) = 1
       THEN \* the only reply is forwarded as it is, without an upstream call
            LET w1 == Enqueue(w, DataFrame(w.ctx.parallelResponses[1].content))
            IN  IF w1.sig = "throw" THEN w1
                ELSE Proceed([w1 EXCEPT
                       !.ctx.finalContentStreamed = TRUE,
                       !.ctx.finalContent = w.ctx.parallelResponses[1].content,
                       !.ctx.modelResponses = w.ctx.parallelResponses,
                       !.ctx.hasModelResponses = TRUE])
       ELSE Await(StartIntegration(w, "integrator", TRUE), "integration")
  ELSE FinishIntegration(w, w.ctx.parallelResponses)

integrateDeepThought(w, resumed) ==
  IF ~resumed
  THEN IF ~w.ctx.appSettings.integratorModel
       THEN Raise(w, "no integrator model")
       ELSE IF Len(w.ctx.parallelResponses) = 0
       THEN Raise(w, "no responses")
       ELSE Await(StartIntegration(w, "integrator", TRUE), "integration")
  ELSE FinishIntegration(w, w.ctx.parallelResponses)

integrateWithCritiques(w, resumed) ==
  IF ~resumed
  THEN IF ~w.ctx.appSettings.integratorModel
       THEN Raise(w, "no integrator model")
       ELSE IF Len(w.ctx.parallelResponses) = 0
       THEN Raise(w, "no drafts")
       ELSE IF Len(w.ctx.critiques) = 0
       THEN Raise(w, "no critiques")
       ELSE Await(StartIntegration(w, "integrator", TRUE), "integration")
  ELSE LET allResponses == w.ctx.parallelResponses \o w.ctx.critiques
           r == FinishIntegration(w, allResponses)
       IN  IF r.sig = "throw" THEN r
           ELSE [r EXCEPT !.ctx.parallelResponses = allResponses]

integrateReport(w, resumed) ==
  IF ~resumed
  THEN IF ~w.ctx.appSettings.integratorModel
       THEN Raise(w, "no integrator model")
       ELSE IF Len(w.ctx.parallelResponses) = 0
       THEN Raise(w, "no responses")
       ELSE Await(StartIntegration(w, "integrator", TRUE), "integration")
  ELSE FinishIntegration(w, w.ctx.parallelResponses)

integrateWithEmotion(w, resumed) ==
  IF ~resumed
  THEN IF ~w.ctx.appSettings.integratorModel
       THEN Raise(w, "no integrator model")
       ELSE IF Len(w.ctx.parallelResponses) = 0
       THEN Raise(w, "no responses")
       ELSE Await(StartIntegration(w, "integrator", TRUE), "integration")
  ELSE FinishIntegration(w, w.ctx.parallelResponses)

(***************************************************************************)
(* The agent registry                                                      *)
(***************************************************************************)
Step(name, execute) == [name |-> name, execute |-> execute]
summarizeStep == Step("SUMMARIZE", "summarizeHistory")

AGENT_DEFINITIONS ==
  [standard |->
     <<summarizeStep,
       Step("EXECUTE_STANDARD", "executeStandard"),
       Step("INTEGRATE_STANDARD", "integrateStandard")>>,
   expert_team |->
     <<summarizeStep,
       Step("EXECUTE_EXPERT_TEAM", "executeExpertTeam"),
       Step("INTEGRATE_EXPERT_TEAM", "integrateStandard")>>,
   deep_thought |->
     <<summarizeStep,
       Step("EXECUTE_DEEP_THOUGHT", "executeDeepThought"),
       Step("INTEGRATE_DEEP_THOUGHT", "integrateDeepThought")>>,
   critique |->
     <<summarizeStep,
       Step("EXECUTE_GENERATORS", "executeGenerators"),
       Step("EXECUTE_CRITICS", "executeCritics"),
       Step("INTEGRATE_CRITIQUES", "integrateWithCritiques")>>,
   dynamic_router |->
     <<summarizeStep,
       Step("EXECUTE_ROUTER", "executeRouter"),
       Step("EXECUTE_ROUTED_TEAM", "executeExpertTeam"),
       Step("INTEGRATE_ROUTED_TEAM", "integrateStandard")>>,
   manager |->
     <<summarizeStep,
       Step("PLAN_SUBTASKS", "planSubtasks"),
       Step("EXECUTE_SUBTASKS", "executeSubtasks"),
       Step("INTEGRATE_REPORT", "integrateReport")>>,
   reflection_loop |->
     <<summarizeStep,
       Step("EXECUTE_REFLECTION_LOOP", "reflectionLoop")>>,
   hypothesis |->
     <<summarizeStep,
       Step("GENERATE_HYPOTHESES", "generateHypotheses"),
       Step("EXECUTE_HYPOTHESES", "executeSubtasks"),
       Step("INTEGRATE_HYPOTHESES", "integrateReport")>>,
   emotion_analysis |->
     <<summarizeStep,
       Step("EXECUTE_META_ANALYSIS", "executeEmotionAnalysis"),
       Step("INTEGRATE_META", "integrateWithEmotion")>>]

\* names every object inherits a property for (two of them)
ObjectPrototypeKeys == {"constructor", "toString"}

\* AGENT_DEFINITIONS[modeId]: an agent, or the inherited property (a function,
\* which has no steps), or undefined
definitionOf(modeId) ==
  IF modeId \in DOMAIN AGENT_DEFINITIONS
  THEN [kind |-> "agent", steps |-> AGENT_DEFINITIONS[modeId]]
  ELSE IF modeId \in ObjectPrototypeKeys
  THEN [kind |-> "inherited", steps |-> <<>>]
  ELSE [kind |-> "undefined", steps |-> <<>>]

\* a lookup whose result is falsy falls back to the standard agent
getAgentById(modeId) ==
  LET definition == definitionOf(modeId)
  IN  IF definition.kind = "undefined"
      THEN AGENT_DEFINITIONS["standard"]
      ELSE definition.steps

\* agent.steps is an array: false of the inherited property, whose steps are
\* undefined, so that agent.steps.map throws a TypeError
HasSteps(modeId) == definitionOf(modeId).kind # "inherited"

EnqueueStatus(stepName) == [kind |-> "status", name |-> stepName]
Run(execute) == [kind |-> "run", name |-> execute]

\* a loop that announces its integration only after it has run
reflectionLoopAnnouncingLate ==
  <<EnqueueStatus("REFLECTION_DRAFT"), Run("executeDeepThought"),
    EnqueueStatus("REFLECTION_CRITIQUE"), Run("executeCritics"),
    Run("integrateWithCritiques"), EnqueueStatus("REFLECTION_INTEGRATE")>>

\* reflectionLoop: what it enqueues and what it awaits, in order
reflectionLoop ==
  <<EnqueueStatus("REFLECTION_DRAFT"), Run("executeDeepThought"),
    EnqueueStatus("REFLECTION_CRITIQUE"), Run("executeCritics"),
    EnqueueStatus("REFLECTION_INTEGRATE"), Run("integrateWithCritiques")>>

\* the orchestrator's loop body for one step: the STATUS frame, then the step
StepOps(step) ==
  IF step.execute = "reflectionLoop"
  THEN <<EnqueueStatus(step.name)>> \o reflectionLoop
  ELSE <<EnqueueStatus(step.name), Run(step.execute)>>

\* the execution plan of a request: the agent's steps but SUMMARIZE
ExecutionPlan(agentMode) ==
  LET executionSteps == SelectSeq(getAgentById(agentMode),
                                  LAMBDA step : step.name # "SUMMARIZE")
  IN  Flatten([i \in 1..Len(executionSteps) |-> StepOps(executionSteps[i])])

Execute(name, w, resumed) ==
  CASE name = "executeStandard" -> executeStandard(w, resumed)
    [] name = "executeExpertTeam" -> executeExpertTeam(w, resumed)
    [] name = "executeDeepThought" -> executeDeepThought(w, resumed)
    [] name = "executeGenerators" -> executeGenerators(w, resumed)
    [] name = "executeRouter" -> executeRouter(w, resumed)
    [] name = "executeSubtasks" -> executeSubtasks(w, resumed)
    [] name = "executeCritics" -> executeCritics(w, resumed)
    [] name = "executeEmotionAnalysis" -> executeEmotionAnalysis(w, resumed)
    [] name = "planSubtasks" -> planSubtasks(w, resumed)
    [] name = "generateHypotheses" -> generateHypotheses(w, resumed)
    [] name = "integrateStandard" -> integrateStandard(w, resumed)
    [] name = "integrateDeepThought" -> integrateDeepThought(w, resumed)
    [] name = "integrateWithCritiques" -> integrateWithCritiques(w, resumed)
    [] name = "integrateReport" -> integrateReport(w, resumed)
    [] name = "integrateWithEmotion" -> integrateWithEmotion(w, resumed)

(***************************************************************************)
(* The request handler: POST and the start(controller) of its stream       *)
(***************************************************************************)
\* the stream has been closed (the response that carries it has status 200)
Done == [phase |-> "done", i |-> 0, sub |-> "", http |-> 200]

\* 3e. the final frames of a request whose steps all returned
\* start(controller) has ended on a cancelled stream: the enqueue of its
\* catch block threw, and close() was never called
Abandoned == [phase |-> "abandoned", i |-> 0, sub |-> "", http |-> 200]

\* the catch block of start(controller)
SendError(w) ==
  LET w1 == Enqueue(w, ErrorFrame(w.err))
  IN  IF w1.sig = "throw" /\ cancelled THEN [w1 EXCEPT !.pc = Abandoned]
      ELSE [w1 EXCEPT !.closed = TRUE, !.pc = Done]

\* a final step that sends finalContent whether or not a step has streamed it
SendResultAlwaysBuffered(w) ==
  LET w1 == IF w.ctx.finalContent # <<>>
            THEN Enqueue(w, DataFrame(w.ctx.finalContent))
            ELSE w
      responsesToSend == IF w.ctx.hasModelResponses THEN w.ctx.modelResponses
                         ELSE w.ctx.parallelResponses
      w2 == Enqueue(w1, ResponsesFrame(responsesToSend))
  IN  IF w2.sig = "throw" THEN SendError(w2)
      ELSE [w2 EXCEPT !.closed = TRUE, !.pc = Done]

SendResult(w) ==
  LET w1 == IF ~w.ctx.finalContentStreamed /\ w.ctx.finalContent # <<>>
            THEN Enqueue(w, DataFrame(w.ctx.finalContent))
            ELSE w
      responsesToSend == IF w.ctx.hasModelResponses THEN w.ctx.modelResponses
                         ELSE w.ctx.parallelResponses
      w2 == Enqueue(w1, ResponsesFrame(responsesToSend))
  IN  IF w2.sig = "throw" THEN SendError(w2)
      ELSE [w2 EXCEPT !.closed = TRUE, !.pc = Done]

RECURSIVE RunSteps(_, _)
RECURSIVE Continue(_, _)
\* a loop that goes on to the next step when a step has thrown
ContinuePastThrow(w, i) ==
  IF w.sig = "wait" THEN w ELSE RunSteps(Proceed(w), i + 1)

\* 3d. the loop over the plan from position i on, up to the next await
RunSteps(w, i) ==
  LET plan == ExecutionPlan(req.agentMode)
  IN  IF i > Len(plan) THEN SendResult(w)
      ELSE IF plan[i].kind = "status"
      THEN LET w1 == Enqueue(w, StatusFrame(plan[i].name))
           IN  IF w1.sig = "throw" THEN SendError(w1) ELSE RunSteps(w1, i + 1)
      ELSE Continue(Execute(plan[i].name,
                            [w EXCEPT !.pc = [w.pc EXCEPT !.phase = "run", !.i = i,
                                                      !.sub = ""]],
                            FALSE), i)

\* what follows when the step at position i has been left
Continue(w, i) ==
  CASE w.sig = "wait" -> w
    [] w.sig = "throw" -> SendError(w)
    [] OTHER -> RunSteps(w, i + 1)

\* a handler that announces a summary whether or not there is one
AfterSummarizeAnnouncingAlways(w) ==
  IF w.sig = "wait" THEN w
  ELSE LET w1 == Enqueue(w, SummaryFrame(w.ctx.newHistoryContext))
           w2 == IF req.systemPrompt # ""
                 THEN [w1 EXCEPT !.ctx.llmMessages = <<"system">> \o @]
                 ELSE w1
       IN  IF w1.sig = "throw" THEN SendError(w1)
           ELSE IF HasSteps(req.agentMode) THEN RunSteps(w2, 1)
           ELSE SendError(Raise(w2, "TypeError"))

\* 3b./3c. after summarizeHistory: the SUMMARY_EXECUTED frame, the system
\* prompt, then the plan
AfterSummarize(w) ==
  IF w.sig = "wait" THEN w
  ELSE LET w1 == IF w.ctx.summaryExecuted
                 THEN Enqueue(w, SummaryFrame(w.ctx.newHistoryContext))
                 ELSE w
           w2 == IF req.systemPrompt # ""
                 THEN [w1 EXCEPT !.ctx.llmMessages = <<"system">> \o @]
                 ELSE w1
       IN  IF w1.sig = "throw" THEN SendError(w1)
           ELSE IF HasSteps(req.agentMode) THEN RunSteps(w2, 1)
           ELSE SendError(Raise(w2, "TypeError"))

\* 3a. the context a request starts with
InitialContext ==
  [llmMessages |-> req.messages,
   enabledModels |-> SelectSeq(req.modelSettings, LAMBDA m : m.enabled),
   appSettings |-> req.appSettings,
   totalContentLength |-> req.totalContentLength,
   parallelResponses |-> <<>>,
   critiques |-> <<>>,
   subTasks |-> <<>>,
   isHypothesis |-> FALSE,
   finalContent |-> <<>>,
   modelResponses |-> <<>>,
   hasModelResponses |-> FALSE,
   summaryExecuted |-> FALSE,
   newHistoryContext |-> <<>>,
   finalContentStreamed |-> FALSE]

\* start(controller) up to its first await
start(w) ==
  AfterSummarize(summarizeHistory(
    [w EXCEPT !.ctx = InitialContext,
              !.pc = [phase |-> "summarize", i |-> 0, sub |-> "",
                      http |-> 200]], FALSE))

\* the continuation of start(controller) after the await that has settled
Resume(w) ==
  IF w.pc.phase = "summarize"
  THEN AfterSummarize(summarizeHistory(w, TRUE))
  ELSE Continue(Execute(ExecutionPlan(req.agentMode)[w.pc.i].name, w, TRUE),
                w.pc.i)

\* POST answers without a stream: 500 when new ApiKeyManager(getApiKeys())
\* throws (no key), else 400 when messages is not an array
Rejected(status) == [phase |-> "rejected", i |-> 0, sub |-> "", http |-> status]

RespondConfigError ==
  /\ pc.phase = "request"
  /\ envKeys = <<>>
  /\ pc' = Rejected(500)
  /\ UNCHANGED <<poolVars, execVars, req, ctx, closed, frames, authFailed,
                 stepCallFailed, integrationsFailed, cancelled, mockKept, lastKey, served,
                 client>>

RespondBadRequest ==
  /\ pc.phase = "request"
  /\ envKeys # <<>>
  /\ ~req.messagesIsArray
  /\ pc' = Rejected(400)
  /\ UNCHANGED <<poolVars, execVars, req, ctx, closed, frames, authFailed,
                 stepCallFailed, integrationsFailed, cancelled, mockKept, lastKey, served,
                 client>>

\* POST returns the Response that carries the stream, and start(controller)
\* runs up to its first await
StartStream ==
  /\ pc.phase = "request"
  /\ envKeys # <<>>
  /\ req.messagesIsArray
  /\ Becomes(start(World))
  /\ UNCHANGED <<envKeys, req, authFailed, stepCallFailed, integrationsFailed, cancelled, mockKept, lastKey, served,
                 client>>

StepResumes ==
  /\ ResumeDue
  /\ \A f \in FanOuts : ~RoundDue(f)
  /\ Becomes(Resume(World))
  /\ integrationsFailed' =
       IF pc.phase = "run" /\ pc.sub = "integration" /\ intg.pc = "thrown"
       THEN integrationsFailed \cup {intg.modelId}
       ELSE integrationsFailed
  /\ UNCHANGED <<envKeys, req, authFailed, stepCallFailed, lastKey, served,
                 cancelled, mockKept,
                 client>>

(***************************************************************************)
(* A whole request                                                         *)
(***************************************************************************)
\* the mode ids of the registry, one id that is no property of any object,
\* and the ids that name an inherited property
RegistryOrUnknownIds == DOMAIN AGENT_DEFINITIONS \cup {"unknown"}
AgentModeIds == RegistryOrUnknownIds \cup ObjectPrototypeKeys

ModelSettingsList(n) == [i \in 1..n |-> [id |-> <<i>>, name |-> i, enabled |-> TRUE]]

\* a history of CONVERSATION_THRESHOLD + 1 messages, no two of them alike
LongHistory ==
  <<"q1", "a1", "q2", "a2", "q3", "a3", "q4", "a4", "q5", "a5", "q6">>

Request(mode, n, integrator, long) ==
  [agentMode |-> mode,
   modelSettings |-> ModelSettingsList(n),
   appSettings |-> [integratorModel |-> integrator, summarizerModel |-> long],
   systemPrompt |-> IF long THEN "sys" ELSE "",
   messages |-> IF long THEN LongHistory ELSE <<"user">>,
   messagesIsArray |-> TRUE,
   totalContentLength |-> 0]

\* the requests: any mode, up to MaxModels enabled models, with or without an
\* integrator model, on a short history; and any mode with one model and an
\* integrator model on a history long enough to be summarised, with a
\* summariser model and a system prompt
StreamableRequests ==
  {Request(mode, n, integrator, FALSE) :
     mode \in AgentModeIds, n \in 0..MaxModels, integrator \in BOOLEAN}
    \cup {Request(mode, 1, TRUE, TRUE) : mode \in RegistryOrUnknownIds}

\* the same envelopes with a messages field that is no array
Requests ==
  StreamableRequests
    \cup {[r EXCEPT !.messages = <<>>, !.messagesIsArray = FALSE] :
            r \in StreamableRequests}

\* the pool new ApiKeyManager(getApiKeys()) makes for a request
FreshPool(n) ==
  \E e \in UpToRenaming(n) :
    /\ envKeys = e
    /\ availableKeys = e
    /\ e \in Shuffles(getApiKeys(e))
    /\ currentIndex = 0

Init ==
  /\ FreshPool(MaxKeys)
  /\ req \in Requests
  /\ ctx = NoCtx
  /\ pc = [phase |-> "request", i |-> 0, sub |-> "", http |-> 0]
  /\ par = [f \in FanOuts |-> IdlePar]
  /\ intg = IdleIntg
  /\ frames = <<>>
  /\ closed = FALSE
  /\ authFailed = {}
  /\ stepCallFailed = FALSE
  /\ integrationsFailed = {}
  /\ cancelled = FALSE
  /\ mockKept = 1..MaxKeys
  /\ client = IdleClient
  /\ lastKey = 0
  /\ served = <<>>

\* the client goes away while the stream is open: the runtime cancels the
\* ReadableStream, which was given no cancel callback, and nothing else is
\* told
ClientDisconnects ==
  /\ pc.phase \in {"summarize", "run"}
  /\ ~cancelled
  /\ cancelled' = TRUE
  /\ UNCHANGED <<poolVars, execVars, reqVars, frames, authFailed,
                 stepCallFailed, integrationsFailed, lastKey, served,
                 mockKept,
                 client>>

Next ==
  \/ RespondConfigError
  \/ RespondBadRequest
  \/ StartStream
  \/ StepResumes
  \/ \E f \in FanOuts : ParCallSettles(f)
  \/ \E f \in FanOuts : ParRoundSettled(f)
  \/ IntChunk
  \/ IntCallReturns
  \/ IntCallThrows

Spec == Init /\ [][Next]_vars

\* requests of the standard and emotion_analysis agents, whose client may go
\* away
InitCancel ==
  /\ Init
  /\ envKeys # <<>>
  /\ req.messagesIsArray
  /\ req.agentMode \in {"standard", "emotion_analysis"}

NextCancel ==
  \/ StartStream
  \/ ClientDisconnects
  \/ StepResumes
  \/ \E f \in FanOuts : ParCallSettles(f)
  \/ \E f \in FanOuts : ParRoundSettled(f)
  \/ IntChunk
  \/ IntCallReturns
  \/ IntCallThrows

SpecCancel == InitCancel /\ [][NextCancel]_vars

(***************************************************************************)
(* generateResponseStreaming: the client's reader of the response body     *)
(***************************************************************************)
\* The wire is a sequence of units of one or more bytes each.  "DATA:" is the
\* two units "DA" "TA:", so that a chunk boundary can fall inside a tag; the
\* two-byte character "é" is the units "e1" "e2"; the other tags, a JSON text
\* ("[]"), a letter, a blank and the newline are one unit each.
MaxWire == 4
MaxChunkText == 3

WireUnits ==
  {"DA", "TA:", "\n", "x", "e1", "e2", "ERROR:", "MODEL_RESPONSES:", "[]"}
ChunkUnits == {"x", " ", "\n", "ERROR:", "STATUS:STEP:"}
JsonTexts == {<<"[]">>}

\* StreamProtocol: the text of a frame
StreamProtocol_STATUS(stepName) == <<"STATUS:STEP:">> \o stepName \o <<"\n">>
StreamProtocol_DATA(chunk) == <<"DA", "TA:">> \o chunk \o <<"\n">>
StreamProtocol_RESPONSES(json) == <<"MODEL_RESPONSES:">> \o json \o <<"\n">>
StreamProtocol_ERROR(message) == <<"ERROR:">> \o message \o <<"\n">>
StreamProtocol_SUMMARY(json) == <<"SUMMARY_EXECUTED:">> \o json \o <<"\n">>

\* the text parts a DATA frame is made from
ChunkTexts == SeqsUpTo(ChunkUnits, MaxChunkText)

\* the bodies a client is run on: any text of MaxWire units at most, the DATA
\* frame of any chunk, and the stream of a request that was summarised,
\* answered, and one that failed
Wires ==
  SeqsUpTo(WireUnits, MaxWire)
    \cup {StreamProtocol_DATA(c) : c \in ChunkTexts}
    \cup {StreamProtocol_SUMMARY(<<"[]">>) \o StreamProtocol_STATUS(<<"x">>)
            \o StreamProtocol_DATA(<<"x">>) \o StreamProtocol_RESPONSES(<<"[]">>),
          StreamProtocol_STATUS(<<"x">>) \o StreamProtocol_ERROR(<<"x", " ">>),
          StreamProtocol_STATUS(<<"x">>) \o StreamProtocol_RESPONSES(<<"x">>)
            \o StreamProtocol_DATA(<<"x">>)}

RECURSIVE DecodeFrom(_, _, _, _)
\* TextDecoderStream on one chunk: a lead byte is kept until its continuation
\* comes, a lead byte followed by something else and a continuation byte on
\* its own become U+FFFD ("?")
DecodeFrom(pending, bytes, i, out) ==
  IF i > Len(bytes) THEN [out |-> out, pending |-> pending]
  ELSE IF pending # <<>>
  THEN IF bytes[i] = "e2"
       THEN DecodeFrom(<<>>, bytes, i + 1, Append(out, "é"))
       ELSE DecodeFrom(<<>>, bytes, i, Append(out, "?"))
  ELSE IF bytes[i] = "e1" THEN DecodeFrom(<<"e1">>, bytes, i + 1, out)
  ELSE IF bytes[i] = "e2" THEN DecodeFrom(<<>>, bytes, i + 1, Append(out, "?"))
  ELSE DecodeFrom(<<>>, bytes, i + 1, Append(out, bytes[i]))

RECURSIVE SplitLines(_)
\* String.prototype.split("\n")
SplitLines(text) ==
  LET nl == FirstIndex(text, "\n", 1)
  IN  IF nl = 0 THEN <<text>>
      ELSE <<SubSeq(text, 1, nl - 1)>> \o SplitLines(SubSeq(text, nl + 1, Len(text)))

startsWith(line, tag) == Len(line) >= Len(tag) /\ SubSeq(line, 1, Len(tag)) = tag

Callback(name, arg) == [cb |-> name, arg |-> arg]

\* the body of processLines' loop on one line (threw: JSON.parse has thrown)
processLine(c, line) ==
  IF startsWith(line, <<"DA", "TA:">>)
  THEN LET chunk == SubSeq(line, 3, Len(line))
       IN  [c EXCEPT !.calls = Append(@, Callback("onData", chunk)),
                     !.finalContent = @ \o chunk]
  ELSE IF startsWith(line, <<"STATUS:STEP:">>)
  THEN [c EXCEPT !.calls = Append(@, Callback("onStatus", Trim(Tail(line))))]
  ELSE IF startsWith(line, <<"MODEL_RESPONSES:">>)
  THEN IF Trim(Tail(line)) \in JsonTexts
       THEN [c EXCEPT !.calls = Append(@, Callback("onResponses", Trim(Tail(line))))]
       ELSE [c EXCEPT !.phase = "threw"]
  ELSE IF startsWith(line, <<"SUMMARY_EXECUTED:">>)
  THEN IF Trim(Tail(line)) \in JsonTexts
       THEN [c EXCEPT !.calls = Append(@, Callback("onSummary", Trim(Tail(line))))]
       ELSE [c EXCEPT !.phase = "threw"]
  ELSE IF startsWith(line, <<"ERROR:">>)
  THEN [c EXCEPT !.calls = Append(@, Callback("onError", Trim(Tail(line))))]
  ELSE c

RECURSIVE processLines(_, _)
processLines(c, lines) ==
  IF lines = <<>> \/ c.phase = "threw" THEN c
  ELSE processLines(processLine(c, Head(lines)), Tail(lines))

\* a reader without the finally: onFinish is reached only when nothing is
\* thrown
FinishOnSuccessOnly(c) ==
  IF c.phase = "threw"
  THEN [c EXCEPT !.phase = "finished",
                 !.calls = Append(@, Callback("onError", <<"read failed">>))]
  ELSE [c EXCEPT !.phase = "finished",
                 !.calls = Append(@, Callback("onFinish", c.finalContent))]

\* the catch and the finally of the read loop
Finish(c) ==
  LET c1 == IF c.phase = "threw"
            THEN [c EXCEPT !.calls = Append(@, Callback("onError", <<"read failed">>))]
            ELSE c
  IN  [c1 EXCEPT !.phase = "finished",
                 !.calls = Append(@, Callback("onFinish", c1.finalContent))]

\* a loop that forgets the unfinished line it has kept
TakeTextForgettingBuffer(c, value) ==
  LET lines == SplitLines(value)
      c1 == processLines([c EXCEPT !.buffer = lines[Len(lines)]],
                         SubSeq(lines, 1, Len(lines) - 1))
  IN  IF c1.phase = "threw" THEN Finish(c1) ELSE c1

\* one turn of the loop on a chunk of text the decoder has passed on
TakeText(c, value) ==
  LET lines == SplitLines(c.buffer \o value)
      c1 == processLines([c EXCEPT !.buffer = lines[Len(lines)]],
                         SubSeq(lines, 1, Len(lines) - 1))
  IN  IF c1.phase = "threw" THEN Finish(c1) ELSE c1

\* the next n bytes of the body come in as one chunk: the decoder passes on
\* the text it has made of them, if any
ReadChunk(c, n) ==
  LET d == DecodeFrom(c.pending, SubSeq(c.wire, c.read + 1, c.read + n), 1, <<>>)
      c1 == [c EXCEPT !.read = @ + n, !.cuts = @ \cup {c.read + n},
                      !.pending = d.pending]
  IN  IF d.out = <<>> THEN c1 ELSE TakeText(c1, d.out)

\* the body has ended on a lead byte: the decoder passes on U+FFFD
ReadFlush(c) == TakeText([c EXCEPT !.pending = <<>>], <<"?">>)

\* read() reports done: what is left in the buffer is processed
ReadDone(c) ==
  Finish(IF c.buffer # <<>> THEN processLines(c, SplitLines(c.buffer)) ELSE c)

StartReading(wire) == [IdleClient EXCEPT !.phase = "reading", !.wire = wire]

\* the whole body read as one chunk
ReadAtOnce(wire) ==
  LET c1 == IF wire = <<>> THEN StartReading(wire)
            ELSE ReadChunk(StartReading(wire), Len(wire))
      c2 == IF c1.phase = "reading" /\ c1.pending # <<>> THEN ReadFlush(c1) ELSE c1
  IN  IF c2.phase = "reading" THEN ReadDone(c2) ELSE c2

ClientVarsOnly ==
  UNCHANGED <<envKeys, availableKeys, currentIndex, par, intg, req, ctx, pc,
              frames, closed, authFailed, stepCallFailed, lastKey, served,
              integrationsFailed, cancelled, mockKept>>

ClientReads ==
  /\ client.phase = "reading"
  /\ \E n \in 1..(Len(client.wire) - client.read) : client' = ReadChunk(client, n)
  /\ ClientVarsOnly

ClientReadsFlush ==
  /\ client.phase = "reading"
  /\ client.read = Len(client.wire) /\ client.pending # <<>>
  /\ client' = ReadFlush(client)
  /\ ClientVarsOnly

ClientReadsDone ==
  /\ client.phase = "reading"
  /\ client.read = Len(client.wire) /\ client.pending = <<>>
  /\ client' = ReadDone(client)
  /\ ClientVarsOnly

InitClient ==
  /\ envKeys = <<>> /\ availableKeys = <<>> /\ currentIndex = 0
  /\ lastKey = 0 /\ served = <<>>
  /\ par = [f \in FanOuts |-> IdlePar]
  /\ intg = IdleIntg
  /\ req = NoReq /\ ctx = NoCtx /\ pc = Library
  /\ frames = <<>> /\ closed = FALSE
  /\ authFailed = {} /\ stepCallFailed = FALSE /\ integrationsFailed = {}
  /\ cancelled = FALSE /\ mockKept = 1..MaxKeys
  /\ \E wire \in Wires : client = StartReading(wire)
NextClient == ClientReads \/ ClientReadsFlush \/ ClientReadsDone
SpecClient == InitClient /\ [][NextClient]_vars

\* generateResponseStreaming from its fetch on.  One of the three early
\* returns reports the error and finishes with no content.
ReturnEarly(c, message) ==
  [c EXCEPT !.phase = "finished",
            !.calls = <<Callback("onError", message), Callback("onFinish", <<>>)>>]

\* fetch rejects
FetchFails ==
  /\ client.phase = "idle"
  /\ client' = ReturnEarly(client, <<"connect failed">>)
  /\ ClientVarsOnly

\* the response is not ok: its JSON error, or the fallback when its body is
\* no JSON
ResponseNotOk ==
  /\ client.phase = "idle"
  /\ \E message \in {<<"error">>, <<"HTTP status">>} :
       client' = ReturnEarly(client, message)
  /\ ClientVarsOnly

\* the response is ok and has no body
ResponseWithoutBody ==
  /\ client.phase = "idle"
  /\ client' = ReturnEarly(client, <<"no stream">>)
  /\ ClientVarsOnly

\* the response is ok: the reader is made and the loop entered
ResponseOk ==
  /\ client.phase = "idle"
  /\ client' = [client EXCEPT !.phase = "reading"]
  /\ ClientVarsOnly

\* reader.read() rejects: the catch and the finally
ReadFails ==
  /\ client.phase = "reading"
  /\ client' = Finish([client EXCEPT !.phase = "threw"])
  /\ ClientVarsOnly

InitFetch ==
  /\ envKeys = <<>> /\ availableKeys = <<>> /\ currentIndex = 0
  /\ lastKey = 0 /\ served = <<>>
  /\ par = [f \in FanOuts |-> IdlePar]
  /\ intg = IdleIntg
  /\ req = NoReq /\ ctx = NoCtx /\ pc = Library
  /\ frames = <<>> /\ closed = FALSE
  /\ authFailed = {} /\ stepCallFailed = FALSE /\ integrationsFailed = {}
  /\ cancelled = FALSE /\ mockKept = 1..MaxKeys
  /\ \E wire \in Wires : client = [IdleClient EXCEPT !.wire = wire]
NextFetch ==
  \/ FetchFails
  \/ ResponseNotOk
  \/ ResponseWithoutBody
  \/ ResponseOk
  \/ ClientReads
  \/ ClientReadsFlush
  \/ ClientReadsDone
  \/ ReadFails
SpecFetch == InitFetch /\ [][NextFetch]_vars

\* the promises the method awaits (fetch, response.json, reader.read) all
\* settle: weak fairness of NextFetch, stated as
\* []<>~ENABLED <<NextFetch>>_vars \/ []<><<NextFetch>>_vars.  A step of
\* NextFetch is enabled exactly until the method has finished, and only
\* NextFetch changes the state.
SpecFetchFair ==
  SpecFetch /\ (([]<>(client.phase = "finished")) \/ ([]<><<TRUE>>_vars))

(***************************************************************************)
(* executeDeepThought's parsing taken alone                                *)
(***************************************************************************)
MaxCapture == 2
MaxReply == 4

\* what a reply is made of: the three markers, a blank and a letter
ReplyUnits == {"[T]", "[/T]", "[A]", " ", "x"}

\* the reply "[T]X[/T][A]Y"
Formatted(X, Y) == <<"[T]">> \o X \o <<"[/T]", "[A]">> \o Y

\* the replies the parser is run on: the formatted reply of any X and Y of
\* MaxCapture units at most, and any text of MaxReply units at most
DeepThoughtReplies ==
  {Formatted(X, Y) : X, Y \in SeqsUpTo(ReplyUnits, MaxCapture)}
    \cup SeqsUpTo(ReplyUnits, MaxReply)

RawReply(text) == [model |-> 1, provider |-> "cerebras", content |-> text]

\* the fan-out of executeDeepThought has returned the raw reply of one model
InitThought ==
  /\ envKeys = <<1>> /\ availableKeys = <<1>> /\ currentIndex = 0
  /\ lastKey = 0 /\ served = <<>>
  /\ \E text \in DeepThoughtReplies :
       par = [f \in FanOuts |->
                IF f = 1 THEN [IdlePar EXCEPT !.pc = "returned",
                                              !.ret = <<RawReply(text)>>]
                ELSE IdlePar]
  /\ intg = IdleIntg
  /\ req = NoReq /\ ctx = NoCtx /\ pc = Library
  /\ frames = <<>> /\ closed = FALSE
  /\ authFailed = {} /\ stepCallFailed = FALSE /\ integrationsFailed = {}
  /\ cancelled = FALSE /\ mockKept = 1..MaxKeys
  /\ client = IdleClient

\* rawResponses.map(...): every raw reply is parsed into parallelResponses
DeepThoughtParses ==
  /\ pc = Library
  /\ par[1].pc = "returned"
  /\ ctx' = [llmMessages |-> ctx.llmMessages,
             parallelResponses |->
               [i \in 1..Len(par[1].ret) |-> ParseDeepThought(par[1].ret[i])]]
  /\ par' = [par EXCEPT ![1].pc = "parsed"]
  /\ UNCHANGED <<envKeys, availableKeys, currentIndex, intg, req, pc, frames,
                 closed, authFailed, stepCallFailed, lastKey, served,
                 integrationsFailed, cancelled, mockKept, client>>

NextThought == DeepThoughtParses
SpecThought == InitThought /\ [][NextThought]_vars

(***************************************************************************)
(* Requests at the thresholds of the summary pre-step                      *)
(***************************************************************************)
\* the histories: one message, CONVERSATION_THRESHOLD messages, one more
Histories == {<<"user">>, Tail(LongHistory), LongHistory}

\* the total lengths the client reports: none, CONTENT_LENGTH_THRESHOLD, one
\* more
ContentLengths == {0, CONTENT_LENGTH_THRESHOLD, CONTENT_LENGTH_THRESHOLD + 1}

\* standard requests with one enabled model and an integrator model, with or
\* without a summariser model and a system prompt
ThresholdRequests ==
  {[agentMode |-> "standard",
    modelSettings |-> ModelSettingsList(1),
    appSettings |-> [integratorModel |-> TRUE, summarizerModel |-> summarizer],
    systemPrompt |-> prompt,
    messages |-> history,
    messagesIsArray |-> TRUE,
    totalContentLength |-> length] :
     summarizer \in BOOLEAN, prompt \in {"", "sys"}, history \in Histories,
     length \in ContentLengths}

InitSummary ==
  /\ FreshPool(MaxKeys) /\ envKeys # <<>>
  /\ req \in ThresholdRequests
  /\ ctx = NoCtx
  /\ pc = [phase |-> "request", i |-> 0, sub |-> "", http |-> 0]
  /\ par = [f \in FanOuts |-> IdlePar]
  /\ intg = IdleIntg
  /\ frames = <<>> /\ closed = FALSE
  /\ authFailed = {} /\ stepCallFailed = FALSE /\ integrationsFailed = {}
  /\ cancelled = FALSE /\ mockKept = 1..MaxKeys
  /\ client = IdleClient
  /\ lastKey = 0 /\ served = <<>>
NextSummary ==
  \/ StartStream
  \/ StepResumes
  \/ ParCallSettles(1)
  \/ ParRoundSettled(1)
  \/ IntCallReturns
  \/ IntCallThrows
SpecSummary == InitSummary /\ [][NextSummary]_vars

(***************************************************************************)
(* Properties of the key pool                                              *)
(***************************************************************************)
NoDuplicates(keys) == \A i, j \in 1..Len(keys) : keys[i] = keys[j] => i = j

Occurrences(keys, k) == Cardinality({i \in 1..Len(keys) : keys[i] = k})

\* C9 as stated: whatever list getApiKeys() produced, every credential
\* appears at most once in the available list, in every state of the pool.
C9_AtMostOnce == NoDuplicates(availableKeys)

\* C9 amended: a credential appears in the available list as many times as
\* getApiKeys() listed it, or not at all once it was removed; so it appears
\* at most once whenever the configured credentials are pairwise distinct.
C9_AsOftenAsConfigured ==
  /\ \A k \in KeyIds :
       Occurrences(availableKeys, k) \in {0, Occurrences(envKeys, k)}
  /\ NoDuplicates(envKeys) => NoDuplicates(availableKeys)

\* distinct credentials, one of them removed after the cursor had moved
C9_Witness ==
  /\ NoDuplicates(envKeys)
  /\ Len(envKeys) >= 3
  /\ Len(availableKeys) = Len(envKeys) - 1
  /\ lastKey \in Range(availableKeys)

\* C10: the cursor is a valid 0-based position of a non-empty available
\* list, and is 0 when the list is empty, after any next() and evict() calls.
C10_CursorInRange ==
  /\ Len(availableKeys) > 0 =>
       (0 <= currentIndex /\ currentIndex < Len(availableKeys))
  /\ Len(availableKeys) = 0 => currentIndex = 0

\* keys were handed out, then keys were removed, and the cursor stands on the
\* last position of what is left
C10_Witness ==
  /\ lastKey > 0
  /\ Len(availableKeys) >= 2
  /\ Len(availableKeys) < Len(envKeys)
  /\ currentIndex = Len(availableKeys) - 1

\* the keys handed out since the last removal are the entries of the
\* available list in list order, cyclically, ending just before the cursor
ServedInListOrder ==
  LET n == Len(availableKeys)
      m == Len(served)
  IN  /\ m <= n
      /\ \A i \in 1..m :
           served[i] = availableKeys[((currentIndex + n - m + i - 1) % n) + 1]

\* a getNextKey() call that returned a key
KeyHandedOut == served' # served /\ served' # <<>>

\* C11 as stated: getNextKey() returns the keys in list order, cyclically, so
\* that keyCount consecutive calls without a removal in between return every
\* available key exactly once; it throws on an empty pool only.
C11_EveryKeyOnce ==
  /\ ServedInListOrder
  /\ Len(served) = Len(availableKeys) =>
       \A k \in Range(availableKeys) : Occurrences(served, k) = 1
  /\ lastKey = -1 => availableKeys = <<>>

\* C11 amended: getNextKey() returns the key at the cursor and advances the
\* cursor modulo the list length, so that keyCount consecutive calls without
\* a removal in between return the entries of the list in list order,
\* cyclically: every available key as often as the list holds it, which is
\* exactly once when the configured credentials are pairwise distinct.  On
\* an empty pool it throws and leaves the list and the cursor as they are.
C11_EveryEntryOnce ==
  /\ [](/\ ServedInListOrder
        /\ Len(served) = Len(availableKeys) =>
             \A k \in KeyIds :
               Occurrences(served, k) = Occurrences(availableKeys, k)
        /\ (Len(served) = Len(availableKeys) /\ NoDuplicates(envKeys)) =>
             \A k \in Range(availableKeys) : Occurrences(served, k) = 1
        /\ lastKey = -1 => availableKeys = <<>>)
  /\ [][/\ KeyHandedOut =>
             /\ lastKey' = availableKeys[currentIndex + 1]
             /\ currentIndex' = (currentIndex + 1) % Len(availableKeys)
             /\ availableKeys' = availableKeys
        /\ availableKeys = <<>> =>
             (availableKeys' = <<>> /\ currentIndex' = currentIndex)]_vars

\* after a removal, a full round over three distinct keys that began in the
\* middle of the list
C11_Witness ==
  /\ Len(availableKeys) = 3
  /\ Len(envKeys) = 4
  /\ NoDuplicates(envKeys)
  /\ Len(served) = 3
  /\ currentIndex = 1

\* left holds the entries of keys that differ from k, in the order of keys
IsKeysWithout(left, keys, k) ==
  /\ k \notin Range(left)
  /\ \E at \in [1..Len(left) -> 1..Len(keys)] :
       /\ \A i, j \in 1..Len(left) : i < j => at[i] < at[j]
       /\ \A i \in 1..Len(left) : keys[at[i]] = left[i]
       /\ \A j \in 1..Len(keys) :
            keys[j] # k => \E i \in 1..Len(left) : at[i] = j

\* C12: removeKey(k) on a pool without k changes neither list nor cursor;
\* a second removeKey(k) changes nothing the first one has not changed; the
\* removal of a present key takes out that key only and keeps the order of
\* the other keys.
C12_RemoveKey ==
  [][\A k \in KeyIds :
       RemoveKey(k) =>
         /\ k \notin Range(availableKeys) =>
              (availableKeys' = availableKeys /\ currentIndex' = currentIndex)
         /\ FilterKey(availableKeys', k) = availableKeys'
         /\ Adjust(availableKeys', currentIndex', k) = currentIndex'
         /\ IsKeysWithout(availableKeys', availableKeys, k)]_vars

\* a key that was listed twice has been removed from between two other keys
C12_Witness ==
  /\ Len(envKeys) = 4
  /\ Len(availableKeys) = 2
  /\ NoDuplicates(availableKeys)
  /\ Range(availableKeys) # Range(envKeys)
  /\ \E i \in 2..3 : envKeys[i] \notin Range(availableKeys)
                     /\ envKeys[i - 1] \in Range(availableKeys)

(***************************************************************************)
(* Properties of classifyError                                             *)
(***************************************************************************)
\* C13: the classification depends on the status alone. 401 and 403 are
\* permanent key errors; 404 and every other 4xx but 429 are permanent model
\* errors; 429, every 5xx and an error without a status (surfaced as 500)
\* are transient. So removeKey and removeModel are never both set, and
\* isPermanent holds exactly when one of them is. Stated for whatever the
\* upstream call in flight may fail with.
C13_ClassifierTable ==
  intg.pc = "call" =>
  \A cause \in {0} \cup (400..599) :
    LET s == statusOfError(cause)
        c == classifyError(s)
    IN  /\ s \in {401, 403} =>
             c = [isPermanent |-> TRUE, removeKey |-> TRUE, removeModel |-> FALSE]
        /\ (s \in 400..499 /\ s \notin {401, 403, 429}) =>
             c = [isPermanent |-> TRUE, removeKey |-> FALSE, removeModel |-> TRUE]
        /\ (s = 429 \/ s \in 500..599) =>
             c = [isPermanent |-> FALSE, removeKey |-> FALSE, removeModel |-> FALSE]
        /\ cause = 0 => s = 500
        /\ ~(c.removeKey /\ c.removeModel)
        /\ c.isPermanent <=> (c.removeKey \/ c.removeModel)

\* an attempt has failed with 403 and its key is gone, the attempt after it
\* has failed with another client error, and a third one is in flight
C13_Witness ==
  /\ intg.pc = "call"
  /\ intg.lastApiError = 400
  /\ intg.attempts >= 2
  /\ Len(availableKeys) < Len(intg.keys0)

(***************************************************************************)
(* Properties of executeParallel                                           *)
(***************************************************************************)
\* a model error: 404, or another 4xx that is neither 401/403 nor 429
IsDropModelStatus(s) == s >= 400 /\ s < 500 /\ s \notin {401, 403, 429}

Fulfilled(f) ==
  {t \in 1..Len(par[f].modelTasks) : par[f].modelTasks[t].status = "fulfilled"}

\* the step in which fan-out f handles the settled results of a round
RoundClassified(f) ==
  /\ par[f].pc = "await"
  /\ \A i \in 1..Len(par[f].results) : par[f].results[i].state # "inflight"
  /\ par'[f] # par[f]

AuthFailureInRound(f, k) ==
  \E j \in 1..Len(par[f].results) :
    /\ par[f].results[j].state = "rejected"
    /\ IsAuthStatus(par[f].results[j].status)
    /\ k = 0 \/ par[f].results[j].apiKey = k

C4_Step(f) ==
  /\ RoundClassified(f) =>
       \A i \in 1..Len(par[f].results) :
         LET res == par[f].results[i]
             t == par[f].pendingTasks[i]
         IN  /\ (res.state = "rejected" /\ IsDropModelStatus(res.status)) =>
                  /\ par'[f].modelTasks[t].status = "failed"
                  /\ par'[f].modelTasks[t].calls = par[f].modelTasks[t].calls
                  /\ t \notin Range(par'[f].pendingTasks)
                  /\ ~AuthFailureInRound(f, res.apiKey) =>
                       Occurrences(availableKeys', res.apiKey)
                         = Occurrences(availableKeys, res.apiKey)
                  /\ ~AuthFailureInRound(f, 0) => availableKeys' = availableKeys
             /\ res.state = "fulfilled" =>
                  /\ par'[f].modelTasks[t].status = "fulfilled"
                  /\ par'[f].modelTasks[t].result.content = res.content
                  /\ par'[f].pc # "await" =>
                       /\ par'[f].pc = "returned"
                       /\ \E a \in 1..Len(par'[f].ret) :
                            par'[f].ret[a] = par'[f].modelTasks[t].result
  /\ \A t \in 1..Len(par[f].modelTasks) :
       (par[f].modelTasks[t].status = "failed" /\ par'[f].pc # "idle") =>
         par'[f].modelTasks[t] = par[f].modelTasks[t]

\* C4: when a task's call fails with 404 (or another 4xx but 401/403/429),
\* that failure removes no key and leaves the available list as it is, the
\* task becomes failed, is not queued again and makes no further call; a
\* failed task never changes again, and the call that succeeded in the same
\* round still has its reply recorded and returned.
C4_ModelErrorDropsTaskOnly == [][\A f \in FanOuts : C4_Step(f)]_vars

\* two tasks on a pool of two keys or more: one gave up on a model error after
\* its first call, the other one's reply was returned, no key was removed
C4_Witness ==
  /\ par[1].pc = "returned"
  /\ Len(par[1].modelTasks) = 2
  /\ Len(par[1].ret) = 1
  /\ Len(availableKeys) >= 2
  /\ availableKeys = par[1].keys0
  /\ \E t \in 1..2 :
       /\ par[1].modelTasks[t].status = "failed"
       /\ par[1].modelTasks[t].calls = 1
       /\ par[1].modelTasks[t].maxAttempts > 1

\* C5: while every failure was transient (429 or 5xx), the available list is
\* the one the call started with; a task of executeParallel that ended failed,
\* and an executeIntegration call that threw, made exactly
\* max(p, MIN_RETRY_ATTEMPTS) upstream calls for the p keys of that list, and
\* no call in progress has made more.
C5_TransientBudget ==
  /\ \A f \in FanOuts :
       (par[f].pc # "idle" /\ par[f].transientOnly) =>
         /\ availableKeys = par[f].keys0
         /\ \A t \in 1..Len(par[f].modelTasks) :
              LET task == par[f].modelTasks[t]
                  budget == Max(Len(par[f].keys0), MIN_RETRY_ATTEMPTS)
              IN  /\ task.calls <= budget
                  /\ (task.status = "failed" /\ task.messages # <<>>) =>
                       task.calls = budget
  /\ (intg.pc # "idle" /\ intg.transientOnly) =>
       /\ availableKeys = intg.keys0
       /\ intg.calls <= Max(Len(intg.keys0), MIN_RETRY_ATTEMPTS)
       /\ intg.pc = "thrown" =>
            intg.calls = Max(Len(intg.keys0), MIN_RETRY_ATTEMPTS)

\* a single task on four keys that failed after four transient failures
C5_Witness ==
  /\ par[1].pc = "thrown"
  /\ par[1].transientOnly
  /\ Len(par[1].keys0) = 4
  /\ Len(par[1].modelTasks) = 1
  /\ par[1].modelTasks[1].calls = 4
  /\ availableKeys = par[1].keys0

\* the a-th smallest member of a set of task positions
NthOf(F, a) == CHOOSE t \in F : Cardinality({u \in F : u < t}) = a - 1

\* C6: what executeParallel returns is the replies of the tasks that
\* succeeded, in the order of the tasks (the order of the input models),
\* whichever round each of them succeeded in.
C6_InputOrder ==
  \A f \in FanOuts :
    par[f].pc = "returned" =>
      /\ Len(par[f].ret) = Cardinality(Fulfilled(f))
      /\ \A a \in 1..Len(par[f].ret) :
           LET t == NthOf(Fulfilled(f), a)
           IN  /\ par[f].ret[a] = par[f].modelTasks[t].result
               /\ par[f].ret[a].model = par[f].modelTasks[t].modelSettings.name

\* both tasks replied, the first one in a later round than the second one
C6_Witness ==
  /\ par[1].pc = "returned"
  /\ Len(par[1].ret) = 2
  /\ par[1].modelTasks[1].attempts > par[1].modelTasks[2].attempts

\* C7: executeParallel throws exactly when no task succeeded; otherwise it
\* returns the successful replies and nothing else, also when it stopped
\* because the pool ran empty with tasks still pending; a task without
\* messages is failed from the start and no call is ever made for it.
C7_AllFailedOnlyWhenNoneSucceeded ==
  \A f \in FanOuts :
    /\ par[f].pc \in {"returned", "thrown"} =>
         /\ par[f].pc = "thrown" <=> Fulfilled(f) = {}
         /\ Len(par[f].ret) = Cardinality(Fulfilled(f))
         /\ Range(par[f].ret) = {par[f].modelTasks[t].result : t \in Fulfilled(f)}
    /\ \A t \in 1..Len(par[f].modelTasks) :
         par[f].modelTasks[t].messages = <<>> =>
           /\ par[f].modelTasks[t].status = "failed"
           /\ par[f].modelTasks[t].calls = 0

\* one reply returned although the pool ran empty while a task was pending
C7_Witness ==
  /\ par[1].pc = "returned"
  /\ availableKeys = <<>>
  /\ Len(par[1].ret) = 1
  /\ \E t \in 1..Len(par[1].modelTasks) : par[1].modelTasks[t].status = "pending"

(***************************************************************************)
(* Properties of executeIntegration                                        *)
(***************************************************************************)
\* the step in which an attempt of executeIntegration fails
AttemptFailed ==
  /\ intg.pc = "call"
  /\ intg'.pc = "thrown" \/ intg'.attempts = intg.attempts + 1

IsLeadingTag(t) == t \in {"STATUS", "SUMMARY_EXECUTED"}
IsTerminalTag(t) == t \in {"MODEL_RESPONSES", "ERROR"}

\* leading frames, then DATA frames, then at most one terminal frame, which
\* is there exactly when the stream is closed
WellFramed ==
  /\ \A i, j \in 1..Len(frames) :
       i < j => /\ ~IsTerminalTag(frames[i].tag)
                /\ frames[i].tag = "DATA" => ~IsLeadingTag(frames[j].tag)
  /\ closed <=> (Len(frames) > 0 /\ IsTerminalTag(frames[Len(frames)].tag))

\* C1: at every moment the frames enqueued so far are STATUS and
\* SUMMARY_EXECUTED frames, then DATA frames only, then - exactly when the
\* stream has been closed - one MODEL_RESPONSES or ERROR frame as the last
\* frame; and once the stream is closed it stays closed and no frame is
\* enqueued any more.
C1_StreamGrammar ==
  /\ []WellFramed
  /\ [][closed => (closed' /\ frames' = frames)]_vars

\* a reflection loop on a summarised history that streamed its answer
C1_Witness ==
  /\ closed
  /\ req.agentMode = "reflection_loop"
  /\ frames[Len(frames)].tag = "MODEL_RESPONSES"
  /\ \E i \in 1..Len(frames) : frames[i].tag = "SUMMARY_EXECUTED"
  /\ \E i \in 1..Len(frames) : frames[i].tag = "DATA"

\* the bodies of the DATA frames enqueued so far, concatenated
StreamedText ==
  Flatten([i \in 1..Len(frames) |->
             IF frames[i].tag = "DATA" THEN frames[i].body ELSE <<>>])

\* C2: when a request has ended with a MODEL_RESPONSES frame, the bodies of
\* its DATA frames, concatenated in the order they were enqueued, are the
\* finalContent of the context.
C2_DataIsFinalContent ==
  (closed /\ frames[Len(frames)].tag = "MODEL_RESPONSES")
    => StreamedText = ctx.finalContent

\* the keys of the upstream calls a step starts
KeysOfStartedCalls ==
  UNION {IF /\ par'[f].pc = "await"
            /\ par'[f] # par[f]
            /\ \A i \in 1..Len(par'[f].results) :
                 par'[f].results[i].state = "inflight"
         THEN {par'[f].results[i].apiKey : i \in 1..Len(par'[f].results)}
         ELSE {} : f \in FanOuts}
    \cup (IF /\ intg'.pc = "call"
             /\ intg.pc # "call" \/ intg'.attempts # intg.attempts \/ pc' # pc
          THEN {intg'.apiKey} ELSE {})

\* C3: the key set of the pool never grows, and no upstream call is started
\* with a key on which an attempt of the same request has failed with 401 or
\* 403 before.
C3_NoCallWithFailedKey ==
  [][/\ Range(availableKeys') \subseteq Range(availableKeys)
     /\ KeysOfStartedCalls \cap authFailed' = {}]_vars


(***************************************************************************)
(* Properties of the summary pre-step                                      *)
(***************************************************************************)
\* the request is one summarizeHistory calls the summariser for
SummaryTriggered ==
  /\ req.appSettings.summarizerModel
  /\ \/ Len(req.messages) > CONVERSATION_THRESHOLD
     \/ req.totalContentLength > CONTENT_LENGTH_THRESHOLD

\* the summariser was called and executeIntegration has thrown
SummaryFailed ==
  /\ pc.phase \in {"run", "done"}
  /\ SummaryTriggered
  /\ ~ctx.summaryExecuted

SummaryFrames == {i \in 1..Len(frames) : frames[i].tag = "SUMMARY_EXECUTED"}

\* the history the steps work on is that of the request, behind the system
\* messages the handler and the router put in front of it
HistoryUncompressed ==
  LET n == Len(ctx.llmMessages) - Len(req.messages)
  IN  /\ n >= 0
      /\ SubSeq(ctx.llmMessages, n + 1, Len(ctx.llmMessages)) = req.messages
      /\ \A i \in 1..n : ctx.llmMessages[i] = "system"

\* C14: when the summariser's call has failed, summarizeHistory returns the
\* context with the messages of the request, in their order, with
\* summaryExecuted = false and newHistoryContext = null; the request goes on
\* with these messages and never has a SUMMARY_EXECUTED frame.
C14_FailureLeavesHistory ==
  /\ (pc.phase = "summarize" /\ intg.pc = "thrown") =>
       LET r == summarizeHistory(World, TRUE)
       IN  /\ r.sig = "next"
           /\ r.ctx.llmMessages = req.messages
           /\ ~r.ctx.summaryExecuted
           /\ r.ctx.newHistoryContext = <<>>
           /\ r.frames = frames
  /\ SummaryFailed =>
       /\ SummaryFrames = {}
       /\ ctx.newHistoryContext = <<>>
       /\ HistoryUncompressed

\* the summariser has lost the only key to a 401 and thrown, and the first
\* step has been started on the eleven messages behind the system prompt
C14_Witness ==
  /\ SummaryFailed
  /\ pc.phase = "run"
  /\ availableKeys = <<>>
  /\ ctx.llmMessages = <<"system">> \o LongHistory

\* C16: when the summariser's call has succeeded, llmMessages is the summary
\* message followed by the last message of the request, summaryExecuted is
\* true and newHistoryContext holds the summary message; one
\* SUMMARY_EXECUTED frame with newHistoryContext is enqueued, as the first
\* frame of the stream; no request has such a frame otherwise, nor two.
C16_SummaryReplacesHistory ==
  /\ [](/\ (pc.phase = "summarize" /\ intg.pc = "returned") =>
             LET r == summarizeHistory(World, TRUE)
                 text == <<"[summary]">> \o intg.ret
             IN  /\ Len(r.ctx.llmMessages) = 2
                 /\ r.ctx.llmMessages[1] = [role |-> "system", content |-> text]
                 /\ r.ctx.llmMessages[2] = req.messages[Len(req.messages)]
                 /\ r.ctx.summaryExecuted
                 /\ Len(r.ctx.newHistoryContext) = 1
                 /\ r.ctx.newHistoryContext[1].role = "system"
                 /\ r.ctx.newHistoryContext[1].content = text
        /\ SummaryFrames \subseteq {1}
        /\ SummaryFrames # {} <=>
             (pc.phase \in {"run", "done"} /\ SummaryTriggered /\ ctx.summaryExecuted)
        /\ SummaryFrames # {} => frames[1].body = ctx.newHistoryContext)
  /\ [][(pc.phase = "summarize" /\ intg.pc = "returned") =>
          /\ Len(frames') > Len(frames)
          /\ frames'[Len(frames) + 1].tag = "SUMMARY_EXECUTED"
          /\ frames'[Len(frames) + 1].body =
               <<[id |-> "msg_summary", role |-> "system",
                  content |-> <<"[summary]">> \o intg.ret]>>
          /\ \A i \in 1..Len(frames) : frames[i].tag # "STATUS"]_vars

\* the summariser succeeded at its second attempt with the text "a", and the
\* request has ended with its replies
C16_Witness ==
  /\ closed
  /\ frames[Len(frames)].tag = "MODEL_RESPONSES"
  /\ frames[1].tag = "SUMMARY_EXECUTED"
  /\ frames[1].body[1].content = <<"[summary]", "a">>
  /\ Len(availableKeys) < Len(envKeys)
  /\ Len(ctx.llmMessages) <= 3

\* the request has ended with a MODEL_RESPONSES frame
EndedWithResponses == closed /\ frames[Len(frames)].tag = "MODEL_RESPONSES"

\* the request has ended with the error of a step that was given nothing to
\* do by the replies before it (a planner that listed no task)
EndedOnEmptyPlan == closed /\ frames[Len(frames)] = ErrorFrame("no subtasks")

\* what the requests the summariser is called for end with when it is not
\* called: their replies, as long as no upstream call of a step fails and
\* the planner lists a task
EndsWithResponsesUnsummarised ==
  (/\ closed
   /\ ~SummaryTriggered
   /\ HasSteps(req.agentMode)
   /\ Len(req.modelSettings) = 1
   /\ req.appSettings.integratorModel
   /\ ~stepCallFailed) => (EndedWithResponses \/ EndedOnEmptyPlan)

\* C15: a failure of the summariser is never fatal. The steps of the agent
\* are still run, on the uncompressed history, and the request ends as it
\* would have ended without the summary pre-step: with MODEL_RESPONSES as
\* long as no upstream call of a step fails and the planner lists a task.
C15_SummariserNeverFatal ==
  /\ SummaryFailed =>
       /\ Len(frames) >= 1
       /\ frames[1].tag = "STATUS"
       /\ HistoryUncompressed
  /\ (closed /\ SummaryFailed /\ ~stepCallFailed) =>
       (EndedWithResponses \/ EndedOnEmptyPlan)


(***************************************************************************)
(* Properties of the request validation                                    *)
(***************************************************************************)

\* POST has returned its Response
Answered == pc.http # 0

\* no stream was opened, no frame enqueued, no executor started
NothingStreamed ==
  /\ frames = <<>>
  /\ ~closed
  /\ ctx = NoCtx
  /\ intg = IdleIntg
  /\ \A f \in FanOuts : par[f] = IdlePar

\* C19: a request whose messages field is not an array is answered with
\* HTTP 400, and a request arriving when no credential is configured with
\* HTTP 500; in both cases no stream is opened, no frame is emitted and no
\* upstream call is made, whatever the rest of the envelope contains
C19_RejectedBeforeStream ==
  /\ (Answered /\ ~req.messagesIsArray) => (pc.http = 400 /\ NothingStreamed)
  /\ (Answered /\ envKeys = <<>>) => (pc.http = 500 /\ NothingStreamed)

\* what the handler does: the credential check comes first
RejectedInCodeOrder ==
  Answered =>
    /\ pc.http = (IF envKeys = <<>> THEN 500
                  ELSE IF ~req.messagesIsArray THEN 400 ELSE 200)
    /\ pc.http # 200 => NothingStreamed


(***************************************************************************)
(* Properties of the loop over the agent's steps                           *)
(***************************************************************************)

\* the step names the operations ops announce, in order
Announcements(ops) ==
  LET status == SelectSeq(ops, LAMBDA op : op.kind = "status")
  IN  [k \in 1..Len(status) |-> status[k].name]

\* the step names the STATUS frames enqueued so far carry, in order
Announced ==
  LET status == SelectSeq(frames, LAMBDA fr : fr.tag = "STATUS")
  IN  [k \in 1..Len(status) |-> status[k].body]

ErrorFrames == {k \in 1..Len(frames) : frames[k].tag = "ERROR"}

\* a step that awaits two fan-outs at once throws as soon as one of them has
\* failed; the other one is then still running, for the step that threw
FanOutLeftBehind ==
  /\ ErrorFrames # {}
  /\ Announced # <<>>
  /\ Announced[Len(Announced)] = "EXECUTE_META_ANALYSIS"

\* on a stream that is open: what has been announced is what the plan
\* announces up to the step that is running, and an ERROR frame is the one
\* and last frame of its kind on a stream that carries no MODEL_RESPONSES
StepsInOrder ==
  /\ pc.http = 200 =>
       LET plan == ExecutionPlan(req.agentMode)
       IN  /\ pc.phase = "summarize" => Announced = <<>>
           /\ pc.phase = "run" =>
                /\ plan[pc.i].kind = "run"
                /\ Announced = Announcements(SubSeq(plan, 1, pc.i))
           /\ pc.phase = "done" =>
                /\ closed
                /\ intg.pc = "idle"
                /\ (\E f \in FanOuts : par[f].pc # "idle") => FanOutLeftBehind
                /\ \E n \in 0..Len(plan) :
                     Announced = Announcements(SubSeq(plan, 1, n))
                /\ ErrorFrames = {} => Announced = Announcements(plan)
           /\ intg.pc # "idle" => pc.phase \in {"summarize", "run"}
  /\ ErrorFrames # {} =>
       /\ ErrorFrames = {Len(frames)}
       /\ closed
       /\ pc.http = 200
       /\ \A k \in 1..Len(frames) : frames[k].tag # "MODEL_RESPONSES"

\* the step that is running has settled and throws
RunningStepThrows ==
  /\ pc.phase = "run"
  /\ StepResumes
  /\ Execute(ExecutionPlan(req.agentMode)[pc.i].name, World, TRUE).sig = "throw"

\* C17: the steps of the selected agent run strictly in registry order, each
\* preceded by its STATUS frame and started only after the previous one has
\* returned; when a step throws no later step is started (no further STATUS
\* frame, no upstream call by a later step) and the request ends with exactly
\* one ERROR frame followed by the close of the stream, never with
\* MODEL_RESPONSES and never with an HTTP error status
C17_StepsInRegistryOrder ==
  /\ []StepsInOrder
  /\ [][RunningStepThrows =>
          /\ frames' = Append(frames, ErrorFrame(
               Execute(ExecutionPlan(req.agentMode)[pc.i].name, World,
                       TRUE).err))
          /\ closed'
          /\ pc' = Done
          /\ intg'.pc = "idle"]_vars
  /\ [][closed => UNCHANGED <<frames, pc, ctx, intg>>]_vars

\* the first of three steps has returned replies and the second has thrown
\* after a failed call: its STATUS frame is the last before the ERROR frame,
\* and the third step was never announced
C17_Witness ==
  /\ closed
  /\ pc.http = 200
  /\ Len(frames) >= 3
  /\ frames[Len(frames)].tag = "ERROR"
  /\ Len(Announced) = 2
  /\ Announced = SubSeq(Announcements(ExecutionPlan(req.agentMode)), 1, 2)
  /\ Len(getAgentById(req.agentMode)) = 4
  /\ ctx.parallelResponses # <<>>
  /\ stepCallFailed


(***************************************************************************)
(* Properties of a failed integration inside a step                        *)
(***************************************************************************)

\* the steps that catch the failure of their executeIntegration call and go
\* on with a default: executeRouter (default instruction) and
\* executeExpertTeam (default roles)
CaughtIntegrations == {"router", "role_generator"}

EndedWithError ==
  /\ closed
  /\ frames[Len(frames)].tag = "ERROR"
  /\ \A k \in 1..Len(frames) : frames[k].tag # "MODEL_RESPONSES"

\* the executeIntegration call of the running step has thrown, and the step
\* is about to see it
IntegrationThrownToStep ==
  /\ pc.phase = "run"
  /\ pc.sub = "integration"
  /\ intg.pc = "thrown"
  /\ StepResumes

\* C18: whenever an executeIntegration call made by a step of the plan
\* (planner, hypothesis generator, router, role generator, any integrate_*;
\* the summariser excepted) has failed, the request ends with ERROR and
\* carries no MODEL_RESPONSES
C18_IntegrationFailureEndsRequest ==
  (closed /\ integrationsFailed # {}) => EndedWithError

\* C18, amended: a failed executeIntegration call of the planner, of the
\* hypothesis generator or of an integrate_* step ends the request at once
\* with the ERROR frame of IntegrationFailed and without MODEL_RESPONSES;
\* a failed call of the router or of the role generator is caught by its
\* step, which goes on with its default (the router's step returns and the
\* next step is started, the expert team's fan-out is started) and leaves
\* the stream open
C18_UncaughtIntegrationFailureEndsRequest ==
  /\ [](integrationsFailed \ CaughtIntegrations # {} =>
          /\ EndedWithError
          /\ frames[Len(frames)] = ErrorFrame("IntegrationFailed"))
  /\ [][IntegrationThrownToStep =>
          IF intg.modelId \in CaughtIntegrations
          THEN /\ ~closed'
               /\ \A k \in 1..Len(frames') : IsLeadingTag(frames'[k].tag)
               /\ pc'.phase = "run"
               /\ IF intg.modelId = "router"
                  THEN pc'.i > pc.i
                  ELSE pc'.i = pc.i /\ pc'.sub = "parallel"
          ELSE /\ closed'
               /\ frames' = Append(frames, ErrorFrame("IntegrationFailed"))]_vars

\* a request whose planner failed has ended with ERROR, and ...
C18_Witness ==
  /\ closed
  /\ integrationsFailed = {"planner"}
  /\ frames[Len(frames)] = ErrorFrame("IntegrationFailed")

\* ... a request whose router failed has ended with MODEL_RESPONSES
C18_RouterFallbackAnswers ==
  /\ closed
  /\ integrationsFailed = {"router"}
  /\ frames[Len(frames)].tag = "MODEL_RESPONSES"


(***************************************************************************)
(* Properties of integrateStandard on a single reply                       *)
(***************************************************************************)

\* the fan-out of the step before integrateStandard has returned exactly one
\* reply, and the handler is about to go on: it stores the reply as
\* parallelResponses, announces the agent's integrating step and runs
\* integrateStandard
SingleReplyReachesIntegrateStandard ==
  LET plan == ExecutionPlan(req.agentMode)
  IN  /\ pc.phase = "run"
      /\ pc.sub = "parallel"
      /\ pc.i + 2 = Len(plan)
      /\ plan[pc.i + 2] = Run("integrateStandard")
      /\ par[1].pc = "returned"
      /\ Len(par[1].ret) = 1
      /\ StepResumes

\* what the single-reply branch leaves behind: one DATA frame with the
\* reply's content after the STATUS frame, the context fields set, no
\* integration started, the pool as it was, and MODEL_RESPONSES right after
\* the DATA frame
SingleReplyForwarded ==
  /\ frames' = frames \o <<StatusFrame(ExecutionPlan(req.agentMode)[pc.i + 1].name),
                           DataFrame(par[1].ret[1].content),
                           ResponsesFrame(par[1].ret)>>
  /\ Cardinality({k \in 1..Len(frames') : frames'[k].tag = "DATA"}) = 1
  /\ ctx'.parallelResponses = par[1].ret
  /\ ctx'.finalContent = par[1].ret[1].content
  /\ ctx'.finalContentStreamed
  /\ ctx'.modelResponses = par[1].ret
  /\ intg' = IdleIntg /\ intg = IdleIntg
  /\ \A f \in FanOuts : par'[f] = IdlePar
  /\ availableKeys' = availableKeys
  /\ currentIndex' = currentIndex
  /\ closed'

\* C20: when parallelResponses holds exactly one reply, integrateStandard
\* emits exactly one DATA frame whose body is that reply's content, sets
\* finalContent to it, finalContentStreamed = true and modelResponses =
\* parallelResponses, makes no upstream call and leaves the key pool
\* (contents and cursor) unchanged; the orchestrator then emits no second
\* DATA frame
C20_SingleReplyForwarded ==
  [][SingleReplyReachesIntegrateStandard => SingleReplyForwarded]_vars

\* C20, amended: the above when an integrator model is configured; with no
\* integrator model integrateStandard throws before it looks at the replies,
\* and the request ends with ERROR without any DATA frame
C20_SingleReplyForwardedWithIntegrator ==
  [][SingleReplyReachesIntegrateStandard =>
       IF ctx.appSettings.integratorModel
       THEN SingleReplyForwarded
       ELSE /\ frames' = frames \o <<StatusFrame(ExecutionPlan(req.agentMode)[pc.i + 1].name),
                                     ErrorFrame("no integrator model")>>
            /\ \A k \in 1..Len(frames') : frames'[k].tag # "DATA"
            /\ closed'
            /\ intg' = IdleIntg
            /\ availableKeys' = availableKeys
            /\ currentIndex' = currentIndex]_vars

\* a request with two enabled models of which one replied: the stream ends
\* STATUS:INTEGRATE_STANDARD, DATA with that reply's content, MODEL_RESPONSES
C20_Witness ==
  /\ closed
  /\ Len(ctx.enabledModels) = 2
  /\ Len(ctx.parallelResponses) = 1
  /\ ctx.finalContentStreamed
  /\ ctx.finalContent = ctx.parallelResponses[1].content
  /\ Len(frames) >= 3
  /\ frames[Len(frames) - 2] = StatusFrame("INTEGRATE_STANDARD")
  /\ frames[Len(frames) - 1] = DataFrame(<<"a">>)
  /\ frames[Len(frames)] = ResponsesFrame(ctx.parallelResponses)


(***************************************************************************)
(* Properties of the agent lookup                                          *)
(***************************************************************************)

\* the steps of the standard agent that are run, with the names announced
StandardSteps ==
  <<Step("EXECUTE_STANDARD", "executeStandard"),
    Step("INTEGRATE_STANDARD", "integrateStandard")>>

\* the steps start(controller) runs for the request
ExecutionSteps ==
  SelectSeq(getAgentById(req.agentMode), LAMBDA step : step.name # "SUMMARIZE")

\* C21: getAgentById maps each of the nine enumerated mode ids to its own
\* ordered step list and every other mode id to the standard agent, so a
\* request with an unknown mode id runs exactly execute_standard then
\* integrate_standard, and emits exactly their two STATUS frames when both
\* are started
C21_UnknownModeIsStandard ==
  /\ pc.http = 200 =>
       /\ req.agentMode \in DOMAIN AGENT_DEFINITIONS =>
            getAgentById(req.agentMode) = AGENT_DEFINITIONS[req.agentMode]
       /\ req.agentMode \notin DOMAIN AGENT_DEFINITIONS =>
            /\ ExecutionSteps = StandardSteps
            /\ ExecutionPlan(req.agentMode) = ExecutionPlan("standard")
  /\ (closed /\ req.agentMode \notin DOMAIN AGENT_DEFINITIONS) =>
       /\ Announced \in {<<"EXECUTE_STANDARD">>,
                         <<"EXECUTE_STANDARD", "INTEGRATE_STANDARD">>}
       /\ EndedWithResponses => Len(Announced) = 2

\* what holds of the ids that name no inherited property: the request runs
\* the standard agent's steps
UnknownModeIsStandardUnlessInherited ==
  (closed /\ req.agentMode = "unknown") =>
    /\ ExecutionSteps = StandardSteps
    /\ Announced \in {<<"EXECUTE_STANDARD">>,
                      <<"EXECUTE_STANDARD", "INTEGRATE_STANDARD">>}
    /\ EndedWithResponses => Len(Announced) = 2


(***************************************************************************)
(* Properties of executeSubtasks                                           *)
(***************************************************************************)

\* the fan-out of executeSubtasks has returned and the step is about to
\* store its replies as parallelResponses; task k of the fan-out is the one
\* that was built for subTasks[k]
SubtasksReturn ==
  /\ pc.phase = "run"
  /\ ExecutionPlan(req.agentMode)[pc.i] = Run("executeSubtasks")
  /\ pc.sub = "parallel"
  /\ par[1].pc = "returned"
  /\ StepResumes

\* C22: after executeSubtasks has completed successfully, parallelResponses
\* holds exactly one reply per entry of subTasks, in subtask order, so that
\* integrateReport pairs subTasks[i] with the reply produced for subTasks[i]
C22_OneReplyPerSubtask ==
  [][SubtasksReturn =>
       /\ Len(ctx'.parallelResponses) = Len(ctx.subTasks)
       /\ \A k \in 1..Len(ctx.subTasks) :
            /\ par[1].modelTasks[k].status = "fulfilled"
            /\ ctx'.parallelResponses[k] = par[1].modelTasks[k].result]_vars

\* what the step stores: the replies of the tasks that were answered, in
\* task order, the others left out
SubtaskRepliesAreTheAnswered ==
  [][SubtasksReturn =>
       /\ ctx'.parallelResponses = Collect(par[1].modelTasks)
       /\ Len(par[1].modelTasks) = Len(ctx.subTasks)
       /\ Len(ctx'.parallelResponses) \in 1..Len(ctx.subTasks)]_vars


(***************************************************************************)
(* Properties of executeEmotionAnalysis                                    *)
(***************************************************************************)

\* the analyser fan-out has returned its reply, the answer fan-out over all
\* enabled models has ended without any reply, and the step is about to go on
AnswerFanOutYieldsNothing ==
  /\ pc.phase = "run"
  /\ ExecutionPlan(req.agentMode)[pc.i] = Run("executeEmotionAnalysis")
  /\ pc.sub = "both"
  /\ par[1].pc = "returned"
  /\ Len(par[1].ret) = 1
  /\ par[2].pc = "thrown"
  /\ StepResumes

\* C23: in executeEmotionAnalysis, if the answer fan-out yields no reply
\* while the analyser fan-out yields one, the step completes successfully
\* with parallelResponses populated from the analyser's reply, instead of
\* failing the request
C23_AnalyserReplyStandsIn ==
  [][AnswerFanOutYieldsNothing =>
       /\ ErrorFrames = {}
       /\ frames'[Len(frames')].tag # "ERROR"
       /\ Len(ctx'.parallelResponses) = 1
       /\ ctx'.parallelResponses[1].content =
            <<"analysis">> \o par[1].ret[1].content
       /\ ctx'.critiques = par[1].ret]_vars

\* what the step does then: the rejection of the answer fan-out rejects
\* Promise.all, and the request ends with the ERROR frame of AllFailed
AnswerFanOutFailureEndsRequest ==
  [][AnswerFanOutYieldsNothing =>
       /\ closed'
       /\ frames' = Append(frames, ErrorFrame("AllFailed"))
       /\ ctx'.parallelResponses = <<>>]_vars


(***************************************************************************)
(* Properties of a client that disconnects                                 *)
(***************************************************************************)

\* the upstream calls that are under way
CallsInFlight ==
  {<<f, i>> \in FanOuts \X (1..MaxModels) :
     /\ i <= Len(par[f].results)
     /\ par[f].results[i].state = "inflight"}
    \cup (IF intg.pc = "call" THEN {<<0, 0>>} ELSE {})

\* this step starts an upstream call
CallStarted ==
  \/ \E f \in FanOuts : \E i \in 1..Len(par'[f].results) :
       /\ par'[f].results[i].state = "inflight"
       /\ \/ i > Len(par[f].results)
          \/ par[f].results[i].state # "inflight"
  \/ /\ intg'.pc = "call"
     /\ intg.pc # "call" \/ intg'.attempts # intg.attempts

\* C24: when the client disconnects while a step is running, the upstream
\* calls of that step that are in flight are cancelled, no upstream call is
\* started afterwards, and the stream is closed without any further frame
\* being enqueued
C24_DisconnectCancelsCalls ==
  /\ [](cancelled => CallsInFlight = {})
  /\ [][cancelled => ~CallStarted]_vars
  /\ [][cancelled => frames' = frames]_vars

\* the part that holds: an enqueue on the cancelled stream throws, so that no
\* frame is enqueued after the client has gone
NoFrameAfterDisconnect == [][cancelled => frames' = frames]_vars

\* the part that fails even for calls that were in flight: none of them is
\* ever withdrawn, every one settles as if the client were there
NoCallStartedAfterDisconnect == [][cancelled => ~CallStarted]_vars

(***************************************************************************)
(* Scenario "key rotation on 401"                                          *)
(***************************************************************************)
\* the scenario's request and pool with bad as KEY_BAD and ok as KEY_OK:
\* standard mode, the one enabled model, the envelope of the first scenario
\* (an integrator model, a history too short to be summarised), a pool of the
\* two keys, and an upstream that has answered as the scenario's mock
Scenario401(bad, ok) ==
  /\ bad # ok
  /\ Len(envKeys) = 2 /\ Range(envKeys) = {bad, ok}
  /\ bad \in mockKept
  /\ pc.phase \notin {"request", "rejected"}
  /\ req.agentMode = "standard"
  /\ Len(req.modelSettings) = 1
  /\ req.appSettings.integratorModel
  /\ ~req.appSettings.summarizerModel

\* the frames of the scenario: the two STATUS frames, the reply of the model
\* forwarded as one DATA frame, and the replies
Frames401 ==
  <<StatusFrame("EXECUTE_STANDARD"), StatusFrame("INTEGRATE_STANDARD"),
    DataFrame(<<"a">>),
    ResponsesFrame(<<[model |-> 1, provider |-> "cerebras",
                      content |-> <<"a">>]>>)>>

\* executeStandard resumes from its fan-out
FanOut401Over ==
  /\ StepResumes
  /\ pc.phase = "run" /\ pc.sub = "parallel"

\* C25 (as stated): in the scenario the model's call is retried exactly once,
\* KEY_BAD is evicted, the frames end with DATA:ok then MODEL_RESPONSES
\* without an ERROR frame, and one key is left in the pool
C25_KeyRotationOn401 ==
  /\ [](\A bad, ok \in 1..MaxKeys :
          (Scenario401(bad, ok) /\ closed) =>
            /\ frames = Frames401
            /\ availableKeys = <<ok>>
            /\ authFailed = {bad})
  /\ [][\A bad, ok \in 1..MaxKeys :
          (Scenario401(bad, ok) /\ FanOut401Over) =>
            /\ par[1].pc = "returned"
            /\ par[1].modelTasks[1].attempts = 2]_vars

\* C25 (amended): the frames are those of the scenario whatever the shuffle;
\* when the shuffle has put KEY_BAD first the call is retried exactly once,
\* KEY_BAD is evicted and one key is left in the pool; when it has put KEY_OK
\* first the one call succeeds, nothing is retried or evicted and the pool
\* keeps its two keys
C25_KeyRotationOn401WhenBadKeyFirst ==
  /\ [](\A bad, ok \in 1..MaxKeys :
          (Scenario401(bad, ok) /\ closed) =>
            /\ frames = Frames401
            /\ availableKeys = IF envKeys[1] = bad THEN <<ok>> ELSE <<ok, bad>>
            /\ authFailed = IF envKeys[1] = bad THEN {bad} ELSE {})
  /\ [][\A bad, ok \in 1..MaxKeys :
          (Scenario401(bad, ok) /\ FanOut401Over) =>
            /\ par[1].pc = "returned"
            /\ par[1].modelTasks[1].attempts =
                 IF envKeys[1] = bad THEN 2 ELSE 1]_vars

\* the scenario has run with KEY_BAD drawn first: the key is gone and the
\* request has ended with the reply
C25_Witness ==
  \E bad, ok \in 1..MaxKeys :
    /\ Scenario401(bad, ok) /\ closed
    /\ envKeys[1] = bad
    /\ availableKeys = <<ok>> /\ authFailed = {bad}
    /\ frames = Frames401

\* the scenario has run with KEY_OK drawn first
KeyOkDrawnFirst ==
  \E bad, ok \in 1..MaxKeys :
    /\ Scenario401(bad, ok) /\ closed
    /\ envKeys[1] = ok
    /\ Len(availableKeys) = 2

(***************************************************************************)
(* The client's reader and the chunks of the response body                 *)
(***************************************************************************)
\* the callbacks a finished reader has invoked, in order, with their
\* arguments; the last of them is onFinish with the final content
Invoked == client.calls

\* C26: what the client's reader invokes - which callbacks, in which order,
\* with which arguments, and the final content it hands to onFinish - does not
\* depend on how the body is cut into chunks: it is what reading the whole
\* body as one chunk invokes, wherever the boundaries fall
C26_ChunkingIsInvisible ==
  client.phase = "finished" => Invoked = ReadAtOnce(client.wire).calls

\* a DATA frame has been read in chunks that ended inside its tag and inside a
\* two-byte character of its body, and its text has been delivered
C26_Witness ==
  /\ client.phase = "finished"
  /\ client.wire = <<"DA", "TA:", "e1", "e2">>
  /\ client.cuts = {1, 3, 4}
  /\ Invoked = <<Callback("onData", <<"é">>), Callback("onFinish", <<"é">>)>>

(***************************************************************************)
(* A DATA frame written by the server and read by the client               *)
(***************************************************************************)
\* the reader has finished on the DATA frame of the chunk
ReadDataFrameOf(chunk) ==
  /\ client.phase = "finished"
  /\ client.wire = StreamProtocol_DATA(chunk)

\* what delivering exactly the chunk invokes: onData with it, and onFinish
\* with it as the final content at the end of the body
DeliveredExactly(chunk) ==
  <<Callback("onData", chunk), Callback("onFinish", chunk)>>

\* C27: writing a chunk as a DATA frame and reading the frame gives the chunk
\* back, whatever the chunk holds - a newline, or after a newline the text of
\* another tag: the client delivers exactly the chunk through onData and
\* invokes no other frame callback
C27_DataFrameRoundTrip ==
  \A chunk \in ChunkTexts : ReadDataFrameOf(chunk) => Invoked = DeliveredExactly(chunk)

\* the part that holds: a chunk without a newline comes back as it was
\* written, blanks and the text of other tags included
DataFrameRoundTripWithinALine ==
  \A chunk \in ChunkTexts :
    (ReadDataFrameOf(chunk) /\ "\n" \notin Range(chunk)) =>
      Invoked = DeliveredExactly(chunk)

\* a chunk with a newline, and the text of an ERROR frame after it, has been
\* read: the client got the text before the newline as the data and the rest
\* as an error of the request
NewlineEndsDataFrame ==
  /\ ReadDataFrameOf(<<"x", "\n", "ERROR:">>)
  /\ Invoked = <<Callback("onData", <<"x">>), Callback("onError", <<>>),
                 Callback("onFinish", <<"x">>)>>

(***************************************************************************)
(* The parsing of a deep-thought reply                                     *)
(***************************************************************************)
\* the raw reply executeDeepThought has parsed, and what it has stored
Parsed == par[1].pc = "parsed"
RawText == par[1].ret[1].content
Stored == ctx.parallelResponses[1]

ExtractionFailed == <<"failed">>

\* the text up to the first "[/T]" of it, if it has one
UpToClose(text) ==
  IF FirstIndex(text, "[/T]", 1) = 0 THEN text
  ELSE SubSeq(text, 1, FirstIndex(text, "[/T]", 1) - 1)

\* the text after the first "[A]" of it
AfterAnswerMarker(text) == SubSeq(text, FirstIndex(text, "[A]", 1) + 1, Len(text))

\* the two fallbacks of the parsing: without "[A]" the whole reply is the
\* content, and without "[T]" either the thought is the placeholder as well
ParseFallbacks ==
  /\ (Parsed /\ "[A]" \notin Range(RawText)) => Stored.content = RawText
  /\ (Parsed /\ Range(RawText) \cap {"[T]", "[A]"} = {}) =>
       /\ Stored.content = RawText
       /\ Stored.thought = ExtractionFailed

\* C28 (as stated): the reply "[T]X[/T][A]Y" is stored with thought = X and
\* content = Y, for all X and Y; without the answer marker the whole reply is
\* the content; without both markers the content is the whole reply and the
\* thought is the extraction-failed placeholder
C28_DeepThoughtParse ==
  /\ \A X, Y \in SeqsUpTo(ReplyUnits, MaxCapture) :
       (Parsed /\ RawText = Formatted(X, Y)) =>
         /\ Stored.thought = X
         /\ Stored.content = Y
  /\ ParseFallbacks

\* C28 (amended): the reply "[T]X[/T][A]Y" is stored with thought = X up to
\* its first "[/T]", if it has one, trimmed, and content = the text after the
\* first "[A]" of the reply, trimmed - which is Y trimmed unless X holds
\* "[A]"; the fallbacks are as stated, and they store the reply untrimmed
C28_DeepThoughtParseTrimmed ==
  /\ \A X, Y \in SeqsUpTo(ReplyUnits, MaxCapture) :
       (Parsed /\ RawText = Formatted(X, Y)) =>
         /\ Stored.thought = Trim(UpToClose(X))
         /\ Stored.content = Trim(AfterAnswerMarker(Formatted(X, Y)))
         /\ "[A]" \notin Range(X) => Stored.content = Trim(Y)
  /\ ParseFallbacks

\* a formatted reply with blanks around X and Y has been parsed
C28_Witness ==
  /\ Parsed
  /\ RawText = Formatted(<<" ", "x">>, <<"x", " ">>)
  /\ Stored.thought = <<"x">> /\ Stored.content = <<"x">>

\* a reply with a thought and no answer marker has been parsed: the whole
\* reply is the content
ThoughtWithoutAnswer ==
  /\ Parsed
  /\ RawText = <<"[T]", "x", "[/T]", "x">>
  /\ Stored.thought = <<"x">> /\ Stored.content = RawText

(***************************************************************************)
(* The budgets of the tasks of a fan-out                                   *)
(***************************************************************************)
\* the loop 2b of fan-out f after the first n results of the round
ClassifiedUpTo(f, n) ==
  ClassifyFrom(1, [tasks |-> par[f].modelTasks, keys |-> availableKeys,
                   idx |-> currentIndex, next |-> <<>>],
               SubSeq(par[f].pendingTasks, 1, n), SubSeq(par[f].results, 1, n))

\* the n-th result of the round of fan-out f is a failure that removes a key
Evicts(f, n) ==
  /\ par[f].results[n].state = "rejected"
  /\ classifyError(par[f].results[n].status).removeKey

\* every pending task may still try every key that is left
BudgetCovers(tasks, keys) ==
  \A t \in 1..Len(tasks) :
    tasks[t].status = "pending" =>
      tasks[t].maxAttempts >= tasks[t].attempts + keyCount(keys)

\* no step of a running fan-out lowers the budget of one of its tasks
BudgetsNeverShrink ==
  [][\A f \in FanOuts :
       par[f].pc = "await" =>
         \A t \in 1..Len(par[f].modelTasks) :
           par'[f].modelTasks[t].maxAttempts >= par[f].modelTasks[t].maxAttempts]_vars

\* after each eviction of a round, the budgets of the fan-out that evicted
\* cover the keys that are left, and none of them has gone down
BudgetsCoverWithinFanOut ==
  \A f \in FanOuts :
    RoundDue(f) =>
      \A n \in 1..Len(par[f].results) :
        /\ Evicts(f, n) =>
             BudgetCovers(ClassifiedUpTo(f, n).tasks, ClassifiedUpTo(f, n).keys)
        /\ \A t \in 1..Len(par[f].modelTasks) :
             ClassifiedUpTo(f, n).tasks[t].maxAttempts
               >= ClassifiedUpTo(f, n - 1).tasks[t].maxAttempts

\* after each eviction of a round, the budgets of the tasks of the other
\* fan-out cover the keys that are left as well
BudgetsCoverAcrossFanOuts ==
  \A f, g \in FanOuts :
    (f # g /\ RoundDue(f)) =>
      \A n \in 1..Len(par[f].results) :
        Evicts(f, n) => BudgetCovers(par[g].modelTasks, ClassifiedUpTo(f, n).keys)

\* C29: a task's maxAttempts never goes down while its fan-out runs - whatever
\* the failures, two evictions in one round (of one key or of two) and two
\* fan-outs on one pool at once included - and after each eviction every task
\* that is still pending has maxAttempts >= attempts + the number of keys left
C29_BudgetsMonotoneAndCovering ==
  /\ BudgetsNeverShrink
  /\ []BudgetsCoverWithinFanOut
  /\ []BudgetsCoverAcrossFanOuts

\* the part that holds: budgets never go down, and an eviction leaves the
\* budgets of the fan-out that made it covering the keys that are left
BudgetsMonotoneAndCoveringOwnFanOut ==
  /\ BudgetsNeverShrink
  /\ []BudgetsCoverWithinFanOut

\* the analyser fan-out is about to evict a key while a task of the answer
\* fan-out is on its last attempt
EvictionBesideLastAttempt ==
  /\ RoundDue(1) /\ Evicts(1, 1)
  /\ par[2].pc = "await"
  /\ par[2].modelTasks[1].status = "pending"
  /\ par[2].modelTasks[1].attempts = par[2].modelTasks[1].maxAttempts

\* two tasks of one fan-out have failed on key errors in the same round
TwoEvictionsInOneRound ==
  \E f \in FanOuts :
    /\ RoundDue(f) /\ Len(par[f].results) = 2
    /\ Evicts(f, 1) /\ Evicts(f, 2)

(***************************************************************************)
(* The trigger of the summary pre-step                                     *)
(***************************************************************************)
\* start(controller) has left the summariser's model call in flight
SummariserCalled ==
  /\ pc'.phase = "summarize"
  /\ intg'.pc = "call" /\ intg'.modelId = "summarizer"

\* the request's messages, as sent, are more than 10, or its total content
\* length is more than 30000
OverAThreshold == Len(req.messages) > 10 \/ req.totalContentLength > 30000

\* C30 (as stated): the summariser's model call is made if and only if the
\* request has more than 10 messages or a total content length of more than
\* 30000, both taken before the system prompt is prepended; 10 messages with
\* 30000 characters do not trigger it, either condition alone does
C30_SummaryTrigger ==
  [][StartStream => (SummariserCalled <=> OverAThreshold)]_vars

\* C30 (amended): the call is made if and only if a summariser model is
\* configured and the request is over one of the two thresholds
C30_SummaryTriggerWithSummariser ==
  [][StartStream =>
       (SummariserCalled <=> (req.appSettings.summarizerModel /\ OverAThreshold))]_vars

\* the summariser is being called for a request with a system prompt that is
\* over the length threshold alone
C30_Witness ==
  /\ pc.phase = "summarize" /\ intg.pc = "call" /\ intg.modelId = "summarizer"
  /\ req.systemPrompt = "sys"
  /\ Len(req.messages) = 10 /\ req.totalContentLength = 30001

\* a request at both thresholds, with a summariser model and a system
\* prompt, has gone on to its first step without a summary
AtBothThresholds ==
  /\ pc.phase = "run"
  /\ req.appSettings.summarizerModel /\ req.systemPrompt = "sys"
  /\ Len(req.messages) = 10 /\ req.totalContentLength = 30000
  /\ Len(ctx.llmMessages) = 11
  /\ intg.calls = 0

(***************************************************************************)
(* The streamed answer and the buffered answer                             *)
(***************************************************************************)
DataFramesIn(fs) == SelectSeq(fs, LAMBDA fr : fr.tag = "DATA")

\* the frames the step being taken appends
Appended == SubSeq(frames', Len(frames) + 1, Len(frames'))

\* the request ends with MODEL_RESPONSES in the step being taken
EndsWithResponses ==
  /\ ~closed /\ closed'
  /\ frames'[Len(frames')].tag = "MODEL_RESPONSES"

\* C31: at most one step of a request sets finalContentStreamed - once it is
\* set no further step runs - and the DATA frame the orchestrator sends for
\* finalContent appears only when no step has sent a DATA frame and
\* finalContent is not empty: the answer a step has streamed and the buffered
\* answer are never both in one response
C31_OneAnswerPerResponse ==
  /\ [](pc.phase \in {"summarize", "run"} => ~ctx.finalContentStreamed)
  /\ [][EndsWithResponses =>
          /\ Len(DataFramesIn(Appended)) <= 1
          /\ ctx'.finalContentStreamed =>
               \/ DataFramesIn(Appended) = <<>>
               \/ /\ DataFramesIn(frames) = <<>>
                  /\ DataFramesIn(Appended) = <<DataFrame(ctx'.finalContent)>>
          /\ ~ctx'.finalContentStreamed =>
               /\ DataFramesIn(frames) = <<>>
               /\ DataFramesIn(Appended) =
                    IF ctx'.finalContent # <<>>
                    THEN <<DataFrame(ctx'.finalContent)>> ELSE <<>>]_vars

\* an integration has streamed its answer in DATA frames and the request has
\* ended with MODEL_RESPONSES right after them
C31_Witness ==
  /\ closed /\ frames[Len(frames)].tag = "MODEL_RESPONSES"
  /\ ctx.finalContentStreamed /\ ctx.finalContent # <<>>
  /\ Len(ctx.parallelResponses) = 2
  /\ DataFramesIn(frames) = <<DataFrame(ctx.finalContent)>>

(***************************************************************************)
(* A request without enabled models                                        *)
(***************************************************************************)
\* the steps that call executeParallel
FanOutSteps ==
  {"executeStandard", "executeExpertTeam", "executeDeepThought",
   "executeGenerators", "executeCritics", "executeSubtasks",
   "executeEmotionAnalysis"}

NoEnabledModels ==
  /\ req.agentMode # "none"
  /\ pc.phase \notin {"request", "rejected"}
  /\ SelectSeq(req.modelSettings, LAMBDA m : m.enabled) = <<>>

\* C32: with no enabled model, each step that fans out throws when it is
\* entered, before it touches executeParallel or executeIntegration (the steps
\* of reflection_loop included, which are executeDeepThought and a later
\* integration); so in every agent mode no fan-out is ever set up, no fan-out
\* call is made, and a stream that was opened ends with an ERROR frame
C32_NoModelsNoFanOut ==
  /\ (NoEnabledModels /\ pc.phase = "run") =>
       \A name \in FanOutSteps :
         LET r == Execute(name, World, FALSE)
         IN  /\ r.sig = "throw"
             /\ r.par = par
             /\ r.intg = intg
             /\ r.keys = availableKeys
             /\ r.idx = currentIndex
  /\ NoEnabledModels =>
       /\ \A f \in FanOuts : par[f] = IdlePar
       /\ (closed /\ pc.http = 200) => frames[Len(frames)].tag = "ERROR"

\* the manager's planner has been called and has answered, and execute_subtasks
\* then ended the request without a fan-out
C32_Witness ==
  /\ NoEnabledModels
  /\ closed
  /\ req.agentMode = "manager"
  /\ ctx.subTasks # <<>>
  /\ frames[Len(frames)].tag = "ERROR"
  /\ Len(frames) >= 3

(***************************************************************************)
(* Termination of the executors                                            *)
(***************************************************************************)
\* the most upstream calls one task, or one integration call, may make when
\* it was set up on p keys
CallBound(p) == Max(p, MIN_RETRY_ATTEMPTS) + (p * (p - 1)) \div 2

CallsWithinBound ==
  /\ \A f \in FanOuts :
       par[f].pc # "idle" =>
         \A t \in 1..Len(par[f].modelTasks) :
           /\ par[f].modelTasks[t].calls <= CallBound(Len(par[f].keys0))
           /\ par[f].modelTasks[t].attempts <= CallBound(Len(par[f].keys0))
  /\ intg.pc # "idle" =>
       /\ intg.calls <= CallBound(Len(intg.keys0))
       /\ intg.attempts <= CallBound(Len(intg.keys0))

\* nothing is left to run: the request has been answered, no step waits to
\* be resumed and no fan-out has a call in flight or a round to classify.  In
\* the states of a request this is ~ENABLED <<Next>>_vars.
Quiescent ==
  /\ pc.phase \in {"rejected", "done"}
  /\ NothingDue
  /\ \A f \in FanOuts : par[f].pc # "await"

\* a request whose every ready continuation is run and whose every upstream
\* call returns: weak fairness of Next, stated as
\* []<>~ENABLED <<Next>>_vars \/ []<><<Next>>_vars with Quiescent for the
\* first disjunct and any change of state, which only Next makes, for the
\* second.  The event loop runs every continuation that is ready, and that
\* every call returns is the claim's assumption.
SpecFair == Spec /\ (([]<>Quiescent) \/ ([]<><<TRUE>>_vars))

StreamOpen == pc.phase \in {"summarize", "run"}

EndedWithTerminalFrame ==
  /\ closed
  /\ frames # <<>>
  /\ frames[Len(frames)].tag \in {"MODEL_RESPONSES", "ERROR"}

\* C33: a task of executeParallel, and a call of executeIntegration, set up
\* on a pool of p keys makes at most max(p, 3) + p(p-1)/2 upstream calls
\* whatever the calls return; and when every call returns, a stream that was
\* opened is closed after a MODEL_RESPONSES or an ERROR frame
C33_ExecutorsTerminate ==
  /\ []CallsWithinBound
  /\ StreamOpen ~> EndedWithTerminalFrame

\* an integration call on two keys that has made all the calls its bound
\* allows: two transient failures, an eviction at the third attempt, and a
\* fourth attempt with the key that is left
C33_Witness ==
  /\ Len(intg.keys0) = 2
  /\ Len(availableKeys) = 1
  /\ intg.calls = CallBound(2)
  /\ intg.pc = "thrown"
  /\ ~closed

(***************************************************************************)
(* Evictions and the attempts that are left                                *)
(***************************************************************************)
\* the n-th result of the round of fan-out f removes a key and leaves one or
\* more: every task of the request that is still pending can try every key
\* that is left, and the task that failed is kept for the next round
EvictionLeavesAttempts(f, n) ==
  LET st == ClassifiedUpTo(f, n)
  IN  (Evicts(f, n) /\ keyCount(st.keys) >= 1) =>
        /\ BudgetCovers(st.tasks, st.keys)
        /\ st.next # <<>>
        /\ st.next[Len(st.next)] = par[f].pendingTasks[n]
        /\ \A g \in FanOuts \ {f} :
             par[g].pc = "await" => BudgetCovers(par[g].modelTasks, st.keys)

\* the same for the catch block of executeIntegration, whatever key error the
\* call in flight may fail with
IntEvictionLeavesAttempts ==
  intg.pc = "call" =>
    \A s \in {401, 403} :
      LET c == IntCatch(intg, s, availableKeys, currentIndex)
      IN  keyCount(c.keys) >= 1 =>
            /\ c.intg.maxAttempts >= c.intg.attempts + keyCount(c.keys)
            /\ IntLoopHead(c.intg, c.keys, c.idx).intg.pc = "call"

EvictionsLeaveAttempts ==
  /\ \A f \in FanOuts :
       RoundDue(f) =>
         \A n \in 1..Len(par[f].results) : EvictionLeavesAttempts(f, n)
  /\ IntEvictionLeavesAttempts

\* every failure there is to see is a 401 or a 403
AuthFailuresOnly ==
  /\ \A f \in FanOuts :
       \A i \in 1..Len(par[f].results) :
         par[f].results[i].state = "rejected" =>
           IsAuthStatus(par[f].results[i].status)
  /\ intg.lastApiError # 0 => IsAuthStatus(intg.lastApiError)

\* no task that was given an attempt, and no integration call, was given up
NoCallGivenUp ==
  /\ \A f \in FanOuts :
       \A t \in 1..Len(par[f].modelTasks) :
         par[f].modelTasks[t].status = "failed" =>
           par[f].modelTasks[t].messages = <<>>
  /\ intg.pc # "thrown"

\* while key k is in the pool and has not failed and every failure is a key
\* error, no call is given up
GoodKeyKeepsCallsAlive(k) ==
  [](AuthFailuresOnly /\ k \in Range(envKeys) /\ k \notin authFailed)
    => []NoCallGivenUp

\* C34: an eviction that leaves r >= 1 keys leaves every still-pending
\* parallel task and the running integration call with r or more attempts,
\* and the call that failed is retried; hence while some key of the pool
\* never fails and every failure is a 401 or a 403 no task and no integration
\* call is given up (so that, the executors terminating, each one succeeds)
C34_EvictionLeavesBudget ==
  /\ []EvictionsLeaveAttempts
  /\ \A k \in 1..MaxKeys : GoodKeyKeepsCallsAlive(k)

\* the part that holds: an eviction leaves the tasks of the fan-out that made
\* it, and the integration call that made it, with an attempt for every key
\* that is left, and a good key keeps every call alive
EvictionLeavesOwnBudget ==
  /\ [](/\ BudgetsCoverWithinFanOut
        /\ IntEvictionLeavesAttempts)
  /\ \A k \in 1..MaxKeys : GoodKeyKeepsCallsAlive(k)

\* the analyser fan-out evicts one of two keys while the only task of the
\* answer fan-out is on its last attempt: one key is left and that task has
\* no attempt left
EvictionLeavesNoAttempt ==
  /\ req.agentMode = "emotion_analysis"
  /\ RoundDue(1) /\ Evicts(1, 1)
  /\ keyCount(ClassifiedUpTo(1, 1).keys) = 1
  /\ par[2].pc = "await"
  /\ ~BudgetCovers(par[2].modelTasks, ClassifiedUpTo(1, 1).keys)

(***************************************************************************)
(* The keys a call has tried when it is given up                           *)
(***************************************************************************)
\* the n-th result of the round of fan-out f is a failure that leaves its
\* task without an attempt: the last branch of 2b, "retry limit reached"
GivesUp(f, n) ==
  LET t == par[f].pendingTasks[n]
      c == classifyError(par[f].results[n].status)
  IN  /\ par[f].results[n].state = "rejected"
      /\ ~(c.isPermanent /\ c.removeModel)
      /\ ClassifiedUpTo(f, n).tasks[t].status = "failed"

ParallelGivesUpAfterEveryKey ==
  \A f \in FanOuts :
    RoundDue(f) =>
      \A n \in 1..Len(par[f].results) :
        GivesUp(f, n) =>
          Range(ClassifiedUpTo(f, n).keys)
            \subseteq ClassifiedUpTo(f, n).tasks[par[f].pendingTasks[n]].tried

IntegrationGivesUpAfterEveryKey ==
  intg.pc = "thrown" => Range(availableKeys) \subseteq intg.tried

\* C35: a parallel task, or an integration call, that is given up because
\* its attempts have reached maxAttempts has been tried with every key that
\* is in the pool at that moment, also when the tasks of a fan-out share the
\* cursor and some of them have finished in earlier rounds
C35_EveryKeyTriedBeforeGivingUp ==
  /\ ParallelGivesUpAfterEveryKey
  /\ IntegrationGivesUpAfterEveryKey

\* two tasks on two keys whose calls all failed with 500: in each of the
\* three rounds the cursor gave the first task the first key and the second
\* task the second, and both are given up with one key of the pool untried
GivenUpWithAnUntriedKey ==
  /\ RoundDue(1)
  /\ Len(par[1].results) = 2
  /\ GivesUp(1, 1) /\ GivesUp(1, 2)
  /\ par[1].transientOnly
  /\ Len(availableKeys) = 2
  /\ \A t \in 1..2 : Cardinality(par[1].modelTasks[t].tried) = 1

(***************************************************************************)
(* Upstream calls after the terminal frame                                 *)
(***************************************************************************)
\* C36: once MODEL_RESPONSES or ERROR has been enqueued and the stream has
\* been closed, no upstream call is started any more - also when one of the
\* two fan-outs of execute_emotion_analysis has failed and the other one
\* still has tasks to retry
C36_NoCallAfterTerminalFrame == [][closed => ~CallStarted]_vars

\* the part that holds: a closed stream leaves no integration call to be
\* made, and outside execute_emotion_analysis no call at all
NoCallAfterTerminalFrameButLeftBehind ==
  /\ [](closed => intg.pc = "idle")
  /\ [][(closed /\ req.agentMode # "emotion_analysis") => ~CallStarted]_vars

\* the request has ended with ERROR after the analyser fan-out failed, and
\* the answer fan-out has a round settled with a task to be tried again
RetryDueAfterError ==
  /\ closed
  /\ req.agentMode = "emotion_analysis"
  /\ frames[Len(frames)].tag = "ERROR"
  /\ par[1].pc = "idle"
  /\ RoundDue(2)
  /\ ClassifyRound(par[2], availableKeys, currentIndex).next # <<>>
  /\ availableKeys # <<>>

(***************************************************************************)
(* Key acquisition and the empty pool                                      *)
(***************************************************************************)
\* no call under way was started without a key, that is by a getNextKey that
\* threw
EveryCallHoldsAKey ==
  /\ \A f \in FanOuts :
       \A i \in 1..Len(par[f].results) : par[f].results[i].apiKey # 0
  /\ intg.pc = "call" => intg.apiKey # 0

\* a fan-out whose round is classified with no key left ends there: it
\* throws when no task has succeeded and returns the successes otherwise
FanOutEndsOnEmptyPool(f) ==
  (RoundDue(f) /\ par'[f] # par[f] /\ availableKeys' = <<>>) =>
    /\ Finished(par'[f])
    /\ par'[f].pc = "thrown" <=> Collect(par'[f].modelTasks) = <<>>

\* an integration call that loses the last key, or is set up on an empty
\* pool, throws
IntegrationEndsOnEmptyPool ==
  (intg' # intg /\ intg'.pc # "idle" /\ availableKeys' = <<>>) =>
    intg'.pc = "thrown"

\* C37: every key acquisition of executeParallel and executeIntegration is
\* made on a pool that holds a key - with two fan-outs on the pool at once
\* and after the summariser or an earlier step has removed every key - so
\* getNextKey never throws in a request, and an executor that finds the pool
\* empty ends as AllFailed or IntegrationFailed
C37_NoAcquisitionOnEmptyPool ==
  /\ []EveryCallHoldsAKey
  /\ [][CallStarted => keyCount(availableKeys') > 0]_vars
  /\ [][\A f \in FanOuts : FanOutEndsOnEmptyPool(f)]_vars
  /\ [][IntegrationEndsOnEmptyPool]_vars

\* the summariser's call has removed the only key, and the first step's
\* fan-out has ended the request without a call
C37_Witness ==
  /\ closed
  /\ envKeys # <<>>
  /\ availableKeys = <<>>
  /\ ctx.summaryExecuted = FALSE
  /\ Len(req.messages) > CONVERSATION_THRESHOLD
  /\ frames = <<[tag |-> "STATUS", body |-> "EXECUTE_STANDARD"],
                ErrorFrame("AllFailed")>>

(***************************************************************************)
(* Attempts and budgets                                                    *)
(***************************************************************************)
\* the tasks of a fan-out are within their budgets; one that was set up
\* without messages is failed with no attempt and no budget; one that waits
\* for the next round has an attempt left
WithinBudget(tasks, next) ==
  /\ \A t \in 1..Len(tasks) :
       /\ tasks[t].attempts <= tasks[t].maxAttempts
       /\ tasks[t].calls = tasks[t].attempts
       /\ tasks[t].messages = <<>> =>
            /\ tasks[t].status = "failed"
            /\ tasks[t].attempts = 0 /\ tasks[t].maxAttempts = 0
  /\ \A i \in 1..Len(next) : tasks[next[i]].attempts < tasks[next[i]].maxAttempts

\* C38: in every state of executeParallel, the states between two results of
\* a round's classification included, each task has attempts <= maxAttempts
\* (0 and 0 for a task pre-marked failed) and a task kept for another round
\* has attempts < maxAttempts; at every point of executeIntegration
\* attempts <= maxAttempts; so no attempt is made beyond the budget
C38_AttemptsWithinBudget ==
  /\ \A f \in FanOuts :
       /\ WithinBudget(par[f].modelTasks, <<>>)
       /\ RoundDue(f) =>
            \A n \in 1..Len(par[f].results) :
              LET st == ClassifiedUpTo(f, n)
              IN  WithinBudget(st.tasks, st.next)
  /\ intg.attempts <= intg.maxAttempts
  /\ intg.calls = intg.attempts

\* a fan-out of a task without messages and a task whose budget an eviction
\* has raised above max(p, 3) and which is on the last attempt of it
C38_Witness ==
  /\ par[1].pc = "await"
  /\ Len(par[1].modelTasks) = 2
  /\ \E t, u \in 1..2 :
       /\ par[1].modelTasks[t].messages = <<>>
       /\ par[1].modelTasks[u].status = "pending"
       /\ par[1].modelTasks[u].attempts = par[1].modelTasks[u].maxAttempts
       /\ par[1].modelTasks[u].maxAttempts
            > Max(Len(par[1].keys0), MIN_RETRY_ATTEMPTS)

(***************************************************************************)
(* onFinish                                                                *)
(***************************************************************************)
\* the positions of the calls of a callback
CallsOf(name) == {i \in 1..Len(Invoked) : Invoked[i].cb = name}

\* the chunks handed to onData, in order, as one text
DeliveredContent ==
  Flatten([i \in 1..Len(SelectSeq(Invoked, LAMBDA call : call.cb = "onData")) |->
             SelectSeq(Invoked, LAMBDA call : call.cb = "onData")[i].arg])

\* onFinish has been invoked once, as the last callback, with the chunks that
\* were delivered
FinishedOnce ==
  /\ Cardinality(CallsOf("onFinish")) = 1
  /\ Invoked[Len(Invoked)] = Callback("onFinish", DeliveredContent)

\* until the method has finished onFinish has not been invoked
OnFinishAtTheEndOnly ==
  IF client.phase = "finished" THEN FinishedOnce ELSE CallsOf("onFinish") = {}

=========================================================================
